---- MODULE Spec2Model ----
(***************************************************************************)
(* A model of the void daemon's rule engine (github.com/lc/void):          *)
(*   - internal/rules.MemoryStore: the id map, the domain map and the      *)
(*     expiry heap (container/heap over expiryHeap);                        *)
(*   - internal/engine.Engine: the command channel, the API tasks, the      *)
(*     ticker and the single worker (runLoop);                              *)
(*   - the PF manager's anchor file as a list of managed blocks, with       *)
(*     filesys.AtomicWrite and the initial load of Engine.Run;              *)
(*   - filesys.AtomicWrite step by step (temp file, rename, crash);         *)
(*   - the anchor codec on lines of text (parser walk and emitter);         *)
(*   - internal/socket.Socket.Connect and its retry loop.                   *)
(* Times are naturals; 0 is the zero time.Time.  Domain names are           *)
(* sequences of one-character strings so that strings.ToLower is computed.  *)
(***************************************************************************)
EXTENDS Integers, Sequences, FiniteSets, TLC

\* ------------------------------------------------------------------ bounds
\* Largest instant used for Expires, ResolvedAt and now.
MaxTime == 2
\* Number of entry addresses (live *entry values) the model can hold.
MaxEntries == 2

Times == 0..MaxTime
IDs == {"id1", "id2"}
\* ResolvedAt values of the store's callers (the engine never passes zero).
Stamps == {1, 2}
Ptrs == 1..MaxEntries
\* The lower-case domain names, and the spellings callers use.
LowerDomains == << <<"a">>, <<"b">> >>
Domains == {<<"a">>, <<"A">>, <<"b">>}
IPLists == {<<"ip1">>, <<"ip2">>}
\* What a resolution yields: an address list and the instant it was made.
Resolutions == {[IPs |-> <<"ip1">>, ResolvedAt |-> 1],
                [IPs |-> <<"ip2">>, ResolvedAt |-> 2]}

\* ------------------------------------------------------------ small helpers
MapPut(m, k, v) == [x \in (DOMAIN m) \cup {k} |-> IF x = k THEN v ELSE m[x]]
MapDel(m, k) == [x \in (DOMAIN m) \ {k} |-> m[x]]
Range(f) == {f[x] : x \in DOMAIN f}
SeqRange(q) == {q[i] : i \in 1..Len(q)}

\* strings.ToLower on the model's alphabet.
LowerChar(c) == CASE c = "A" -> "a" [] c = "B" -> "b" [] OTHER -> c
ToLower(d) == [i \in DOMAIN d |-> LowerChar(d[i])]

\* The rules a caller can build: Permanent exactly when Expires is zero.
Rule(id, d, ips, exp, ra) ==
    [ID |-> id, Domain |-> d, IPs |-> ips, Expires |-> exp,
     Permanent |-> (exp = 0), ResolvedAt |-> ra]
Rules == {Rule(id, d, res.IPs, exp, res.ResolvedAt) :
             id \in IDs, d \in Domains, res \in Resolutions, exp \in Times}

\* ------------------------------------------------------------------- store
\* A store value: ent maps an entry address to the entry (the embedded Rule's
\* fields and heapIdx), byID and byDom map keys to entry addresses, expH is the
\* heap slice (Go index i is expH[i+1]), count is the metrics counter, and
\* panic records a Go run-time panic (index out of range inside the heap).
NewStore == [ent |-> <<>>, byID |-> <<>>, byDom |-> <<>>, expH |-> <<>>,
             count |-> 0, panic |-> FALSE]

\* The Rule an entry embeds (entry without its heap index).
RuleOf(e) == [ID |-> e.ID, Domain |-> e.Domain, IPs |-> e.IPs,
              Expires |-> e.Expires, Permanent |-> e.Permanent,
              ResolvedAt |-> e.ResolvedAt]

\* expiryHeap.Len / Less / Swap on Go indices.
HLen(s) == Len(s.expH)
Less(s, i, j) == s.ent[s.expH[i + 1]].Expires < s.ent[s.expH[j + 1]].Expires
\* A Swap that exchanges the elements and leaves their recorded indices.
Swap_KeepsIdx(s, i, j) ==
    LET pi == s.expH[i + 1]
        pj == s.expH[j + 1]
    IN  [s EXCEPT !.expH = [@ EXCEPT ![i + 1] = pj, ![j + 1] = pi]]

Swap(s, i, j) ==
    LET pi == s.expH[i + 1]
        pj == s.expH[j + 1]
    IN  [s EXCEPT !.expH = [@ EXCEPT ![i + 1] = pj, ![j + 1] = pi],
                  !.ent = [p \in DOMAIN @ |->
                             IF p = pj THEN [@[p] EXCEPT !.heapIdx = i]
                             ELSE IF p = pi THEN [@[p] EXCEPT !.heapIdx = j]
                             ELSE @[p]]]

\* Go's integer division truncates toward zero: (0 - 1) / 2 = 0.
GoDiv2(x) == IF x < 0 THEN 0 - ((0 - x) \div 2) ELSE x \div 2

\* container/heap.up
RECURSIVE up(_, _)
up(s, j) ==
    LET i == GoDiv2(j - 1)
    IN  IF i = j \/ ~Less(s, j, i) THEN s ELSE up(Swap(s, i, j), i)

\* container/heap.down: the store and the index the element ended at.
RECURSIVE downLoop(_, _, _)
downLoop(s, i, n) ==
    LET j1 == 2 * i + 1
    IN  IF j1 >= n \/ j1 < 0 THEN [s |-> s, i |-> i]
        ELSE LET j == IF j1 + 1 < n /\ Less(s, j1 + 1, j1) THEN j1 + 1 ELSE j1
             IN  IF ~Less(s, j, i) THEN [s |-> s, i |-> i]
                 ELSE downLoop(Swap(s, i, j), j, n)
down(s, i0, n) ==
    LET r == downLoop(s, i0, n) IN [s |-> r.s, moved |-> r.i > i0]

\* expiryHeap.Push: record the index, append.
PushRaw(s, p) == [s EXCEPT !.ent[p].heapIdx = HLen(s), !.expH = Append(@, p)]
\* expiryHeap.Pop: mark the last element as out of the heap, shrink the slice.
PopRaw(s) ==
    LET n == HLen(s)
        p == s.expH[n]
    IN  [s |-> [s EXCEPT !.ent[p].heapIdx = 0 - 1, !.expH = SubSeq(@, 1, n - 1)],
         e |-> p]

\* container/heap.Push
heapPush(s, p) == LET s1 == PushRaw(s, p) IN up(s1, HLen(s1) - 1)

\* container/heap.Pop (callers check Len > 0 first)
heapPop(s) ==
    LET n == HLen(s) - 1
        s1 == Swap(s, 0, n)
    IN  PopRaw(down(s1, 0, n).s)

\* container/heap.Remove: an index outside the slice panics in Swap.
heapRemove(s, i) ==
    LET n == HLen(s) - 1
    IN  IF i < 0 \/ i > n THEN [s EXCEPT !.panic = TRUE]
        ELSE IF n # i
             THEN LET s1 == Swap(s, i, n)
                      d == down(s1, i, n)
                  IN  PopRaw(IF d.moved THEN d.s ELSE up(d.s, i)).s
             ELSE PopRaw(s).s

\* container/heap.Fix: a negative index falls through both loops; an index
\* past the end panics in Less.
heapFix(s, i) ==
    IF i < 0 THEN s
    ELSE IF i >= HLen(s) THEN (IF i = 0 THEN s ELSE [s EXCEPT !.panic = TRUE])
    ELSE LET d == down(s, i, HLen(s))
         IN  IF d.moved THEN d.s ELSE up(d.s, i)

\* Entry addresses still referenced by a map or by the heap; the rest is
\* garbage and its address can be handed out again.
Live(s) == Range(s.byID) \cup Range(s.byDom) \cup SeqRange(s.expH)
Collect(s) == [s EXCEPT !.ent = [p \in Live(s) |-> @[p]]]
FreePtrs(s) == Ptrs \ DOMAIN s.ent
\* The allocator: addresses are never compared or printed, so any free one
\* will do; the model prefers the one numbered like the domain.
NewPtr(s, dom) ==
    LET want == {i \in FreePtrs(s) : i <= Len(LowerDomains) /\ LowerDomains[i] = dom}
    IN  IF want # {} THEN CHOOSE p \in want : TRUE
        ELSE CHOOSE p \in FreePtrs(s) : \A q \in FreePtrs(s) : p <= q

\* The upgrade without its heap.Remove.
UpsertUpgrade_KeepsHeapEntry(s, p, r) ==
    [s |-> [s EXCEPT !.ent[p].Permanent = TRUE, !.ent[p].Expires = 0],
     changed |-> TRUE]

\* MemoryStore.Upsert, the domain is known, the stored rule is temporary and
\* r is permanent: upgrade in place and drop the heap entry.
UpsertUpgrade(s, p, r) ==
    LET s1 == [s EXCEPT !.ent[p].Permanent = TRUE, !.ent[p].Expires = 0]
    IN  [s |-> heapRemove(s1, s.ent[p].heapIdx), changed |-> TRUE]

\* The update that also files the stored entry under the caller's id.
UpsertUpdate_RekeysID(s, p, r) ==
    [s |-> [s EXCEPT !.ent[p].IPs = r.IPs,
                     !.ent[p].ResolvedAt = r.ResolvedAt,
                     !.ent[p].Expires = r.Expires,
                     !.byID = MapPut(@, r.ID, p)],
     changed |-> TRUE]

\* MemoryStore.Upsert, the domain is known otherwise: overwrite IPs,
\* ResolvedAt and Expires of the stored rule (its Permanent flag and its heap
\* position are left as they are).
UpsertUpdate(s, p, r) ==
    [s |-> [s EXCEPT !.ent[p].IPs = r.IPs,
                     !.ent[p].ResolvedAt = r.ResolvedAt,
                     !.ent[p].Expires = r.Expires],
     changed |-> TRUE]

\* An insert that pushes every new entry on the heap, permanent or not.
UpsertInsert_PushesAll(s, dom, r) ==
    LET p == NewPtr(s, dom)
        e == [ID |-> r.ID, Domain |-> r.Domain, IPs |-> r.IPs,
              Expires |-> r.Expires, Permanent |-> r.Permanent,
              ResolvedAt |-> r.ResolvedAt, heapIdx |-> 0]
        s1 == [s EXCEPT !.ent = MapPut(@, p, e),
                        !.byID = MapPut(@, r.ID, p),
                        !.byDom = MapPut(@, dom, p)]
    IN  [s |-> [heapPush(s1, p) EXCEPT !.count = @ + 1], changed |-> TRUE]

\* MemoryStore.Upsert, the domain is new: a fresh entry in both maps, pushed
\* on the heap when temporary.
UpsertInsert(s, dom, r) ==
    LET p == NewPtr(s, dom)
        e == [ID |-> r.ID, Domain |-> r.Domain, IPs |-> r.IPs,
              Expires |-> r.Expires, Permanent |-> r.Permanent,
              ResolvedAt |-> r.ResolvedAt, heapIdx |-> 0]
        s1 == [s EXCEPT !.ent = MapPut(@, p, e),
                        !.byID = MapPut(@, r.ID, p),
                        !.byDom = MapPut(@, dom, p)]
        s2 == IF ~r.Permanent THEN heapPush(s1, p) ELSE s1
    IN  [s |-> [s2 EXCEPT !.count = @ + 1], changed |-> TRUE]

\* MemoryStore.Upsert
Upsert(s, r) ==
    LET dom == ToLower(r.Domain)
    IN  IF dom \in DOMAIN s.byDom
        THEN LET p == s.byDom[dom]
             IN  IF ~s.ent[p].Permanent /\ r.Permanent
                 THEN UpsertUpgrade(s, p, r)
                 ELSE UpsertUpdate(s, p, r)
        ELSE UpsertInsert(s, dom, r)

\* MemoryStore.UpdateResolvedAt
UpdateResolvedAt(s, id, ts) ==
    IF id \notin DOMAIN s.byID THEN [s |-> s, found |-> FALSE]
    ELSE LET p == s.byID[id]
             s1 == [s EXCEPT !.ent[p].ResolvedAt = ts]
             s2 == IF ~s1.ent[p].Permanent
                   THEN heapFix(s1, s1.ent[p].heapIdx) ELSE s1
             d == s2.ent[p].Domain
         IN  IF d \notin DOMAIN s2.byDom THEN [s |-> s2, found |-> FALSE]
             ELSE [s |-> [s2 EXCEPT !.ent[s2.byDom[d]].ResolvedAt = ts],
                   found |-> TRUE]

\* Go's nil.
Nil == [nil |-> TRUE]

\* Remove that forgets the domain map.
Remove_KeepsDomain(s, id) ==
    IF id \notin DOMAIN s.byID THEN [s |-> s, rule |-> Nil, found |-> FALSE]
    ELSE LET p == s.byID[id]
             cur == s.ent[p]
             s1 == [s EXCEPT !.byID = MapDel(@, cur.ID)]
             s2 == IF ~cur.Permanent THEN heapRemove(s1, cur.heapIdx) ELSE s1
         IN  [s |-> [s2 EXCEPT !.count = @ - 1],
              rule |-> [ptr |-> p, rule |-> RuleOf(cur)], found |-> TRUE]

\* MemoryStore.Remove: rule is the removed rule (with its entry address), or
\* Nil.
Remove(s, id) ==
    IF id \notin DOMAIN s.byID THEN [s |-> s, rule |-> Nil, found |-> FALSE]
    ELSE LET p == s.byID[id]
             cur == s.ent[p]
             s1 == [s EXCEPT !.byID = MapDel(@, cur.ID),
                             !.byDom = MapDel(@, ToLower(cur.Domain))]
             s2 == IF ~cur.Permanent THEN heapRemove(s1, cur.heapIdx) ELSE s1
         IN  [s |-> [s2 EXCEPT !.count = @ - 1],
              rule |-> [ptr |-> p, rule |-> RuleOf(cur)], found |-> TRUE]

\* ExpireNow that reads the due entries off the heap slice without popping
\* them.
ExpireLoop_NoPop(s, now, expired) ==
    LET due == SelectSeq(s.expH, LAMBDA p : s.ent[p].Expires <= now)
        gone == SeqRange(due)
    IN  [s |-> [s EXCEPT !.byID = [k \in {x \in DOMAIN @ : @[x] \notin gone} |-> @[k]],
                         !.byDom = [k \in {x \in DOMAIN @ : @[x] \notin gone} |-> @[k]],
                         !.count = @ - Len(due)],
         expired |-> [i \in 1..Len(due) |->
                        [ptr |-> due[i], rule |-> RuleOf(s.ent[due[i]])]]]

\* MemoryStore.ExpireNow: the loop, with the rules popped so far.
RECURSIVE ExpireLoop(_, _, _)
ExpireLoop(s, now, expired) ==
    IF HLen(s) = 0 \/ s.ent[s.expH[1]].Expires > now
    THEN [s |-> s, expired |-> expired]
    ELSE LET po == heapPop(s)
             e == po.s.ent[po.e]
             s1 == [po.s EXCEPT !.byID = MapDel(@, e.ID),
                                !.byDom = MapDel(@, ToLower(e.Domain)),
                                !.count = @ - 1]
         IN  ExpireLoop(s1, now, Append(expired, [ptr |-> po.e, rule |-> RuleOf(e)]))
ExpireNow(s, now) == ExpireLoop(s, now, <<>>)

\* MemoryStore.Snapshot: value copies of the rules of the id map (as a set:
\* Go's map iteration order is unspecified).
Snapshot(s) == {RuleOf(s.ent[s.byID[id]]) : id \in DOMAIN s.byID}

\* MemoryStore.NextExpiry
NextExpiry(s) ==
    IF HLen(s) = 0 THEN [t |-> 0, ok |-> FALSE]
    ELSE [t |-> s.ent[s.expH[1]].Expires, ok |-> TRUE]

\* ------------------------------------------------------------------- state
VARIABLES
    store,      \* the MemoryStore
    last,       \* the last store call (its name and which case of it ran),
                \* or the last tick the ticker dropped
    returned,   \* entry address -> the `now` of the ExpireNow call that
                \* returned it, for the calls since the last Upsert
    cmdChan,    \* Engine.cmdChan: the buffered commands, oldest first
    wpc,        \* where runLoop is: "select", "handle" (in a handler),
                \* "sync" (about to call syncPF), "syncing" (in pfMgr.Sync)
                \* or "exited"
    cur,        \* the command runLoop has received and is processing
    loop,       \* handleRefreshExpire's locals: now, changed and the rules
                \* of the snapshot its loop has still to visit
    cancelled,  \* whether runCtx is cancelled (Close was called)
    tickerUp,   \* whether runTicker is still running
    clock,      \* the wall clock read by time.Now()
    uuid,       \* how many ids uuid.NewString() has handed out
    pfRules,    \* the rules handed to the last pfMgr.Sync call (none before
                \* the first)
    pfErr,      \* whether the last pfMgr.Sync call returned an error
    pfBusy,     \* how many pfMgr.Sync calls are in progress
    anchor,     \* the anchor file on disk
    pfSteps,    \* the steps the last completed pfMgr.Sync call went through
    blockCall,  \* a BlockDomain call that has not returned: its arguments
                \* and whether its ctx is done
    blockRet,   \* what that call returned
    unblockCall,\* an UnblockDomain call that has not returned
    pre,        \* the rules of the store when the command in progress was
                \* received
    apiSnap,    \* what Engine.Snapshot returned to an API task while the
                \* handler of the command in progress was running
    accepted,   \* how many sends on cmdChan have completed
    started,    \* the commands dispatched so far, by their accept number
    finished,   \* how many loop iterations of runLoop have completed
    dst,        \* AtomicWrite: the destination file (NoFile or its content
                \* and mode)
    tmp,        \* AtomicWrite: the temp file of the call (NoFile before
                \* CreateTemp and after Remove or Rename)
    awpc,       \* AtomicWrite: the step the call is at, "returned", or
                \* "crashed" when the process died
    awErr,      \* AtomicWrite: its local err ("nil" or the step that
                \* failed), which is what the call returns
    awArgs,     \* AtomicWrite: the call's data, the content of dst before
                \* the call and the steps that fail in this run
    xs,         \* anchor codec: the rule list handed to the emitter
    text,       \* anchor codec: the lines of the anchor text
    parsed,     \* anchor codec: what the parser returned for text
    cpc,        \* anchor codec: "emit" or "parse" (the call to come), "done"
                \* or "idle"
    spc,        \* Socket.Connect: where the call is ("dial", the three
                \* tests of shouldRetry, "wait" in the select, "done"), or
                \* "idle"
    sres,       \* Socket.Connect: what the call returned, "pending" before
    snow,       \* Socket.Connect: the time since the Socket was created,
                \* in retry intervals
    deadline,   \* Socket.Connect: its local deadline
    waitStart,  \* Socket.Connect: when the current time.After was started
    ctxDone,    \* Socket.Connect: whether the caller's ctx has ended
    procRunning,\* Socket.Connect: whether the daemon process is running
    lastDial,   \* Socket.Connect: "ok" or "failed" for the last tryConnect,
                \* "none" before the first
    saw         \* Socket.Connect: what the last shouldRetry read: whether
                \* the time was after the deadline, how the elapsed time
                \* compared with the grace, the answer of the process check

storeVars == <<store, last, returned>>
chanVars == <<cmdChan, accepted>>
workerVars == <<wpc, cur, loop, started, finished>>
lifeVars == <<cancelled, tickerUp>>
pfVars == <<pfRules, pfErr, pfBusy, anchor, pfSteps>>
callVars == <<blockCall, blockRet, unblockCall>>
obsVars == <<pre, apiSnap>>
engineVars == <<chanVars, workerVars, lifeVars, clock, uuid, pfVars, callVars,
                obsVars>>
fsVars == <<dst, tmp, awpc, awErr, awArgs>>
codecVars == <<xs, text, parsed, cpc>>
sockVars == <<spc, sres, snow, deadline, waitStart, ctxDone, procRunning,
              lastDial, saw>>
otherVars == <<fsVars, codecVars, sockVars>>
allButFs == <<storeVars, engineVars, codecVars, sockVars>>
allButCodec == <<storeVars, engineVars, fsVars, sockVars>>
allButSock == <<storeVars, engineVars, fsVars, codecVars>>
vars == <<storeVars, engineVars, otherVars>>

NoCall == [op |-> "none"]
\* No anchor file on disk.
NoFile == [kind |-> "absent"]

\* No AtomicWrite call of its own is in progress (the engine's writes are
\* part of pfMgr.Sync).
NoWrite ==
    /\ dst = NoFile
    /\ tmp = NoFile
    /\ awpc = "idle"
    /\ awErr = "nil"
    /\ awArgs = Nil

\* No call of the anchor codec of its own is in progress.
NoCodec ==
    /\ xs = <<>>
    /\ text = <<>>
    /\ parsed = Nil
    /\ cpc = "idle"

\* No Socket.Connect call is in progress.
NoRead == [late |-> FALSE, since |-> "unread", running |-> FALSE]
NoConnect ==
    /\ spc = "idle"
    /\ sres = "pending"
    /\ snow = 0
    /\ deadline = 0
    /\ waitStart = 0
    /\ ctxDone = FALSE
    /\ procRunning = FALSE
    /\ lastDial = "none"
    /\ saw = NoRead

\* The engine after New and Run on a host with no anchor file: an empty
\* store, an empty channel, the worker and the ticker started.
EngineStarted ==
    /\ store = NewStore
    /\ last = NoCall
    /\ returned = <<>>
    /\ cmdChan = <<>>
    /\ wpc = "select"
    /\ cur = Nil
    /\ cancelled = FALSE
    /\ tickerUp = TRUE
    /\ clock = 1
    /\ uuid = 0
    /\ pfRules = {}
    /\ pfErr = FALSE
    /\ pfBusy = 0
    /\ anchor = NoFile
    /\ pfSteps = <<>>
    /\ loop = Nil
    /\ blockCall = Nil
    /\ blockRet = Nil
    /\ unblockCall = Nil
    /\ pre = Nil
    /\ apiSnap = Nil
    /\ accepted = 0
    /\ started = <<>>
    /\ finished = 0

\* The engine alone: nothing else of the repository is in use.
EngineInit == EngineStarted /\ NoWrite /\ NoCodec /\ NoConnect

\* A MemoryStore of its own (NewStore), called directly.
StoreInit == EngineInit

\* The branch Upsert takes for r: "insert", "upgrade" or "update".
UpsertPath(s, r) ==
    LET dom == ToLower(r.Domain)
    IN  IF dom \notin DOMAIN s.byDom THEN "insert"
        ELSE IF ~s.ent[s.byDom[dom]].Permanent /\ r.Permanent THEN "upgrade"
        ELSE "update"

\* Whether r carries the id of the rule already stored for its domain.
SameID(s, r) ==
    LET dom == ToLower(r.Domain)
    IN  dom \in DOMAIN s.byDom /\ s.ent[s.byDom[dom]].ID = r.ID

\* Whether r spells its domain otherwise than the stored rule does.
OtherCase(s, r) ==
    LET dom == ToLower(r.Domain)
    IN  dom \in DOMAIN s.byDom /\ s.ent[s.byDom[dom]].Domain # r.Domain

\* A caller invokes Upsert(r).
UpsertCall(r) ==
    /\ ~store.panic
    /\ (UpsertPath(store, r) = "insert" => FreePtrs(store) # {})
    /\ store' = Collect(Upsert(store, r).s)
    /\ last' = [op |-> "Upsert", path |-> UpsertPath(store, r),
                sameID |-> SameID(store, r), otherCase |-> OtherCase(store, r)]
    /\ returned' = <<>>
    /\ UNCHANGED engineVars
    /\ UNCHANGED otherVars

UpdateResolvedAtCall(id, ts) ==
    /\ ~store.panic
    /\ LET res == UpdateResolvedAt(store, id, ts)
       IN  /\ store' = Collect(res.s)
           /\ last' = [op |-> "UpdateResolvedAt", found |-> res.found]
    /\ UNCHANGED returned
    /\ UNCHANGED engineVars
    /\ UNCHANGED otherVars

RemoveCall(id) ==
    /\ ~store.panic
    /\ LET res == Remove(store, id)
       IN  /\ store' = Collect(res.s)
           /\ last' = [op |-> "Remove", found |-> res.found]
    /\ UNCHANGED returned
    /\ UNCHANGED engineVars
    /\ UNCHANGED otherVars

ExpireNowCall(now) ==
    /\ ~store.panic
    /\ LET res == ExpireNow(store, now)
           ptrs == {res.expired[i].ptr : i \in 1..Len(res.expired)}
       IN  /\ store' = Collect(res.s)
           /\ last' = [op |-> "ExpireNow", n |-> Len(res.expired)]
           /\ returned' = [p \in (DOMAIN returned) \cup ptrs |->
                             IF p \in DOMAIN returned THEN returned[p] ELSE now]
    /\ UNCHANGED engineVars
    /\ UNCHANGED otherVars

StoreNext ==
    \/ \E r \in Rules : UpsertCall(r)
    \/ \E id \in IDs, ts \in Stamps : UpdateResolvedAtCall(id, ts)
    \/ \E id \in IDs : RemoveCall(id)
    \/ \E now \in Times : ExpireNowCall(now)

StoreSpec == StoreInit /\ [][StoreNext]_vars

\* The store as the engine calls it: a rule for a new domain carries an id
\* no stored rule has (handleBlock draws a fresh UUID, handleRefreshExpire
\* passes a stored rule's own id and domain, the anchor parser rejects
\* duplicate ids).
FreshUpsertCall(r) ==
    /\ UpsertPath(store, r) = "insert" => r.ID \notin DOMAIN store.byID
    /\ UpsertCall(r)

FreshStoreNext ==
    \/ \E r \in Rules : FreshUpsertCall(r)
    \/ \E id \in IDs, ts \in Stamps : UpdateResolvedAtCall(id, ts)
    \/ \E id \in IDs : RemoveCall(id)
    \/ \E now \in Times : ExpireNowCall(now)

FreshStoreSpec == StoreInit /\ [][FreshStoreNext]_vars

\* ------------------------------------------------------------------ engine
\* _commandBufferSize
commandBufferSize == 10
\* Number of commands sent in a run of the engine.
MaxCmds == 3
\* Number of commands sent in a run that fills the command channel.
MaxSends == 11
\* Engine.dnsRefresh, in clock units.
dnsRefresh == 1
\* The ttl values of block requests: 0 asks for a permanent rule.
TTLs == {0, 1}

\* What resolver.LookupHost can return: an error, or an address list (the
\* Clienter interface lets it be empty).
LookupResults == {[err |-> TRUE, ips |-> <<>>]} \cup
                 {[err |-> FALSE, ips |-> l] : l \in IPLists \cup {<<>>}}

\* ipKey counts of a list, and ipsEqual: same length and same multiset.
CountIn(l, k) == Cardinality({i \in 1..Len(l) : l[i] = k})
ipsEqual(a, b) ==
    IF Len(a) # Len(b) THEN FALSE
    ELSE IF Len(a) = 0 THEN TRUE
    ELSE \A k \in SeqRange(b) : CountIn(b, k) <= CountIn(a, k)

\* A receive that takes the newest buffered command.
Dequeue_Last(q) == [cmd |-> q[Len(q)], rest |-> SubSeq(q, 1, Len(q) - 1)]

\* The channel receive of runLoop's select: the oldest buffered command.
Dequeue(q) == [cmd |-> Head(q), rest |-> Tail(q)]

\* A send on cmdChan completes (there is room): the command is buffered
\* behind the others.
Enqueue(c) ==
    /\ Len(cmdChan) < commandBufferSize
    /\ cmdChan' = Append(cmdChan, c @@ [seq |-> accepted + 1])
    /\ accepted' = accepted + 1

blockCmd(d, ttl) == [type |-> "block", domain |-> d, ttl |-> ttl]
unblockCmd(id) == [type |-> "unblock", id |-> id]
refreshExpireCmd == [type |-> "refresh"]

\* Engine.BlockDomain called with a live ctx while the channel has room: the
\* send case runs at once and the call returns nil.
BlockDomain(d, ttl) ==
    /\ Enqueue(blockCmd(d, ttl))
    /\ UNCHANGED <<storeVars, workerVars, lifeVars, clock, uuid, pfVars,
                   callVars, obsVars>>
    /\ UNCHANGED otherVars

\* Engine.UnblockDomain called while the channel has room: the send case
\* runs at once and the call returns.
UnblockDomain(id) ==
    /\ Enqueue(unblockCmd(id))
    /\ UNCHANGED <<storeVars, workerVars, lifeVars, clock, uuid, pfVars,
                   callVars, obsVars>>
    /\ UNCHANGED otherVars

\* Engine.BlockDomain is called and reaches its select; done tells whether
\* the caller's ctx has already ended.
CallBlockDomain(d, ttl, done) ==
    /\ blockCall = Nil
    /\ blockCall' = [domain |-> d, ttl |-> ttl, ctxDone |-> done]
    /\ blockRet' = Nil
    /\ UNCHANGED <<storeVars, chanVars, workerVars, lifeVars, clock, uuid,
                   pfVars, unblockCall, obsVars>>
    /\ UNCHANGED otherVars

\* The ctx of the caller waiting in BlockDomain ends (deadline or cancel).
CallerCtxDone ==
    /\ blockCall # Nil
    /\ ~blockCall.ctxDone
    /\ blockCall' = [blockCall EXCEPT !.ctxDone = TRUE]
    /\ UNCHANGED <<storeVars, chanVars, workerVars, lifeVars, clock, uuid,
                   pfVars, blockRet, unblockCall, obsVars>>
    /\ UNCHANGED otherVars

\* Engine.BlockDomain, the send case of its select: the command is buffered
\* and the call returns nil.
BlockDomainSend ==
    /\ blockCall # Nil
    /\ Enqueue(blockCmd(blockCall.domain, blockCall.ttl))
    /\ blockRet' = [err |-> FALSE, ctxDone |-> blockCall.ctxDone, sent |-> TRUE]
    /\ blockCall' = Nil
    /\ UNCHANGED <<storeVars, workerVars, lifeVars, clock, uuid, pfVars,
                   unblockCall, obsVars>>
    /\ UNCHANGED otherVars

\* Engine.BlockDomain, the ctx.Done case of its select: the call returns
\* ctx.Err() and nothing is sent.
BlockDomainCtxErr ==
    /\ blockCall # Nil
    /\ blockCall.ctxDone
    /\ blockRet' = [err |-> TRUE, ctxDone |-> TRUE, sent |-> FALSE]
    /\ blockCall' = Nil
    /\ UNCHANGED <<storeVars, chanVars, workerVars, lifeVars, clock, uuid,
                   pfVars, unblockCall, obsVars>>
    /\ UNCHANGED otherVars

\* Engine.UnblockDomain is called and reaches its select.
CallUnblockDomain(id) ==
    /\ unblockCall = Nil
    /\ unblockCall' = [id |-> id]
    /\ UNCHANGED <<storeVars, chanVars, workerVars, lifeVars, clock, uuid,
                   pfVars, blockCall, blockRet, obsVars>>
    /\ UNCHANGED otherVars

\* Engine.UnblockDomain, the send case of its select; the other case waits
\* on context.Background(), which is never done.
UnblockDomainSend ==
    /\ unblockCall # Nil
    /\ Enqueue(unblockCmd(unblockCall.id))
    /\ unblockCall' = Nil
    /\ UNCHANGED <<storeVars, workerVars, lifeVars, clock, uuid, pfVars,
                   blockCall, blockRet, obsVars>>
    /\ UNCHANGED otherVars

\* Engine.Snapshot called by an API task: a read of the store under its
\* read lock, between two store calls of the worker.
SnapshotCall ==
    /\ wpc = "handle"
    /\ apiSnap' = [rules |-> Snapshot(store)]
    /\ UNCHANGED <<storeVars, chanVars, workerVars, lifeVars, clock, uuid,
                   pfVars, callVars, pre>>
    /\ UNCHANGED otherVars

\* Engine.runTicker, a tick arrives and the inner select sends the reconcile
\* command.
TickerSend ==
    /\ tickerUp
    /\ Enqueue(refreshExpireCmd)
    /\ UNCHANGED <<storeVars, workerVars, lifeVars, clock, uuid, pfVars,
                   callVars, obsVars>>
    /\ UNCHANGED otherVars

\* A ticker whose inner select has no default case: on a full channel it
\* waits in the send.
TickerSkip_Waits ==
    /\ FALSE
    /\ UNCHANGED vars

\* Engine.runTicker, a tick arrives while the channel is full and the
\* context is live: the default case drops the tick and the ticker is back
\* at its outer select.
TickerSkip ==
    /\ tickerUp
    /\ Len(cmdChan) >= commandBufferSize
    /\ ~cancelled
    /\ last' = [op |-> "TickerSkip"]
    /\ UNCHANGED <<store, returned, engineVars>>
    /\ UNCHANGED otherVars

\* Engine.runTicker returns on ctx.Done (in either select).
TickerExit ==
    /\ tickerUp
    /\ cancelled
    /\ tickerUp' = FALSE
    /\ UNCHANGED <<storeVars, chanVars, workerVars, cancelled, clock, uuid,
                   pfVars, callVars, obsVars>>
    /\ UNCHANGED otherVars

\* Engine.Close: cancelFn(); its wg.Wait returns once the worker and the
\* ticker have exited.
Close ==
    /\ ~cancelled
    /\ cancelled' = TRUE
    /\ UNCHANGED <<storeVars, chanVars, workerVars, tickerUp, clock, uuid,
                   pfVars, callVars, obsVars>>
    /\ UNCHANGED otherVars

\* Time passes.
Advance ==
    /\ clock < MaxTime
    /\ clock' = clock + 1
    /\ UNCHANGED <<storeVars, chanVars, workerVars, lifeVars, uuid, pfVars,
                   callVars, obsVars>>
    /\ UNCHANGED otherVars

\* runLoop's select receives a command.
WorkerReceive ==
    /\ wpc = "select"
    /\ cmdChan # <<>>
    /\ LET d == Dequeue(cmdChan)
       IN  /\ cur' = d.cmd
           /\ cmdChan' = d.rest
           /\ started' = Append(started, d.cmd.seq)
    /\ wpc' = "handle"
    /\ pre' = [rules |-> Snapshot(store)]
    /\ apiSnap' = Nil
    /\ UNCHANGED <<storeVars, accepted, loop, finished, lifeVars, clock, uuid,
                   pfVars, callVars>>
    /\ UNCHANGED otherVars

\* A worker that returns on ctx.Done wherever it is, leaving the command in
\* progress undone.
WorkerExit_Abandons ==
    /\ wpc \in {"select", "handle", "sync"}
    /\ cancelled
    /\ wpc' = "exited"
    /\ UNCHANGED <<storeVars, chanVars, cur, loop, started, finished, lifeVars,
                   clock, uuid, pfVars, callVars, obsVars>>
    /\ UNCHANGED otherVars

\* runLoop's select takes ctx.Done: the worker returns.
WorkerExit ==
    /\ wpc = "select"
    /\ cancelled
    /\ wpc' = "exited"
    /\ UNCHANGED <<storeVars, chanVars, cur, loop, started, finished, lifeVars,
                   clock, uuid, pfVars, callVars, obsVars>>
    /\ UNCHANGED otherVars

\* A runLoop that starts the PF sync and does not wait for it.
AfterHandler_SyncDetached(needsSync) ==
    /\ wpc' = "select"
    /\ cur' = Nil
    /\ finished' = finished + 1
    /\ pre' = Nil
    /\ apiSnap' = Nil
    /\ IF needsSync
       THEN /\ pfRules' = Snapshot(store')
            /\ pfBusy' = pfBusy + 1
            /\ UNCHANGED <<pfErr, anchor, pfSteps>>
       ELSE UNCHANGED pfVars

\* The end of a handler in runLoop: on to syncPF when needsSync, else the
\* iteration is over.
AfterHandler(needsSync) ==
    /\ IF needsSync
       THEN wpc' = "sync" /\ UNCHANGED <<cur, finished>>
       ELSE wpc' = "select" /\ cur' = Nil /\ finished' = finished + 1
    /\ pre' = Nil
    /\ apiSnap' = Nil
    /\ UNCHANGED pfVars

\* A rule whose Expires is the ttl itself, not now + ttl.
BlockRule_TTLAsExpiry(cmd, ips, id, t) ==
    [ID |-> id, Domain |-> cmd.domain, IPs |-> ips,
     Expires |-> IF cmd.ttl > 0 THEN cmd.ttl ELSE 0,
     Permanent |-> ~(cmd.ttl > 0), ResolvedAt |-> t]

\* Engine.handleBlock: the rule it builds from the resolved addresses.
BlockRule(cmd, ips, id, t) ==
    [ID |-> id, Domain |-> cmd.domain, IPs |-> ips,
     Expires |-> IF cmd.ttl > 0 THEN t + cmd.ttl ELSE 0,
     Permanent |-> ~(cmd.ttl > 0), ResolvedAt |-> t]

\* A handleBlock that stores a rule without addresses when the lookup
\* returns none.
handleBlock_StoresEmpty(s, cmd, res, id, t) ==
    IF res.err
    THEN [s |-> s, newID |-> FALSE, needsSync |-> FALSE]
    ELSE LET u == Upsert(s, BlockRule(cmd, res.ips, id, t))
         IN  [s |-> u.s, newID |-> TRUE, needsSync |-> u.changed]

\* Engine.handleBlock, given what the lookup returns, the next uuid and
\* time.Now(): the store it leaves, whether it took the uuid, and needsSync.
handleBlock(s, cmd, res, id, t) ==
    IF res.err \/ Len(res.ips) = 0
    THEN [s |-> s, newID |-> FALSE, needsSync |-> FALSE]
    ELSE LET u == Upsert(s, BlockRule(cmd, res.ips, id, t))
         IN  [s |-> u.s, newID |-> TRUE, needsSync |-> u.changed]

\* Engine.handleBlock, for each outcome of the lookup.
HandleBlock ==
    /\ wpc = "handle"
    /\ cur.type = "block"
    /\ \E res \in LookupResults :
          LET h == handleBlock(store, cur, res, uuid + 1, clock)
          IN  /\ store' = Collect(h.s)
              /\ uuid' = IF h.newID THEN uuid + 1 ELSE uuid
              /\ AfterHandler(h.needsSync)
    /\ UNCHANGED <<last, returned, chanVars, loop, started, lifeVars, clock,
                   callVars>>
    /\ UNCHANGED otherVars

\* A handleUnblock that asks for a PF sync whatever Remove found.
handleUnblock_AlwaysSyncs(s, cmd) ==
    [s |-> Remove(s, cmd.id).s, needsSync |-> TRUE]

\* Engine.handleUnblock: the store it leaves and needsSync.
handleUnblock(s, cmd) ==
    LET res == Remove(s, cmd.id)
    IN  [s |-> res.s, needsSync |-> res.found]

\* Engine.handleUnblock
HandleUnblock ==
    /\ wpc = "handle"
    /\ cur.type = "unblock"
    /\ LET h == handleUnblock(store, cur)
       IN  /\ store' = Collect(h.s)
           /\ AfterHandler(h.needsSync)
    /\ UNCHANGED <<last, returned, chanVars, loop, started, lifeVars, clock,
                   uuid, callVars>>
    /\ UNCHANGED otherVars

\* The orders in which a set can be iterated.
Orders(S) == {q \in [1..Cardinality(S) -> S] : \A i, j \in DOMAIN q : i # j => q[i] # q[j]}

\* Engine.handleRefreshExpire up to its loop: read the clock, expire, and
\* take the snapshot the loop will range over (in Go's slice order, which
\* comes from a map iteration).
HandleRefreshExpire ==
    /\ wpc = "handle"
    /\ cur.type = "refresh"
    /\ loop = Nil
    /\ LET ex == ExpireNow(store, clock)
       IN  /\ store' = Collect(ex.s)
           /\ \E order \in Orders(Snapshot(ex.s)) :
                 loop' = [now |-> clock, changed |-> Len(ex.expired) > 0,
                          rest |-> order]
    /\ UNCHANGED <<last, returned, chanVars, wpc, cur, started, finished,
                   lifeVars, clock, uuid, pfVars, callVars, obsVars>>
    /\ UNCHANGED otherVars

\* Engine.handleRefreshExpire: whether a snapshot rule is due for a lookup
\* at time t.
Stale(rule, t) ==
    rule.ResolvedAt = 0 \/ (t - rule.ResolvedAt) * 10 > dnsRefresh * 9

\* A refresh that stores the new addresses under the old resolution time.
RefreshRule_KeepsOldStamp(s, rule, t, res) ==
    IF res.err THEN [s |-> s, changed |-> FALSE]
    ELSE IF ~ipsEqual(rule.IPs, res.ips)
         THEN LET u == Upsert(s, [ID |-> rule.ID, Domain |-> rule.Domain,
                                  IPs |-> res.ips, Expires |-> rule.Expires,
                                  Permanent |-> rule.Permanent,
                                  ResolvedAt |-> rule.ResolvedAt])
              IN  [s |-> u.s, changed |-> u.changed]
         ELSE LET u == UpdateResolvedAt(s, rule.ID, t)
              IN  [s |-> u.s, changed |-> u.found]

\* Engine.handleRefreshExpire: the body of the loop for a stale snapshot
\* rule, given what the lookup returns for it.
RefreshRule(s, rule, t, res) ==
    IF res.err THEN [s |-> s, changed |-> FALSE]
    ELSE IF ~ipsEqual(rule.IPs, res.ips)
         THEN LET u == Upsert(s, [ID |-> rule.ID, Domain |-> rule.Domain,
                                  IPs |-> res.ips, Expires |-> rule.Expires,
                                  Permanent |-> rule.Permanent,
                                  ResolvedAt |-> t])
              IN  [s |-> u.s, changed |-> u.changed]
         ELSE LET u == UpdateResolvedAt(s, rule.ID, t)
              IN  [s |-> u.s, changed |-> u.found]

\* A loop that returns at the first lookup error instead of going on.
RefreshStep_StopsOnError ==
    /\ wpc = "handle"
    /\ loop # Nil
    /\ loop.rest # <<>>
    /\ LET rule == Head(loop.rest)
       IN  IF ~Stale(rule, clock)
           THEN /\ loop' = [loop EXCEPT !.rest = Tail(@)]
                /\ UNCHANGED store
           ELSE \E res \in LookupResults :
                   LET r == RefreshRule(store, rule, loop.now, res)
                   IN  /\ store' = Collect(r.s)
                       /\ loop' = [loop EXCEPT
                                     !.rest = IF res.err THEN <<>> ELSE Tail(@),
                                     !.changed = @ \/ r.changed]
    /\ UNCHANGED <<last, returned, chanVars, wpc, cur, started, finished,
                   lifeVars, clock, uuid, pfVars, callVars, obsVars>>
    /\ UNCHANGED otherVars

\* Engine.handleRefreshExpire: one iteration of the loop.  A rule that is
\* not stale is passed over; for a stale one the resolver is called.
RefreshStep ==
    /\ wpc = "handle"
    /\ loop # Nil
    /\ loop.rest # <<>>
    /\ LET rule == Head(loop.rest)
       IN  IF ~Stale(rule, clock)
           THEN /\ loop' = [loop EXCEPT !.rest = Tail(@)]
                /\ UNCHANGED store
           ELSE \E res \in LookupResults :
                   LET r == RefreshRule(store, rule, loop.now, res)
                   IN  /\ store' = Collect(r.s)
                       /\ loop' = [loop EXCEPT !.rest = Tail(@),
                                               !.changed = @ \/ r.changed]
    /\ UNCHANGED <<last, returned, chanVars, wpc, cur, started, finished,
                   lifeVars, clock, uuid, pfVars, callVars, obsVars>>
    /\ UNCHANGED otherVars

\* Engine.handleRefreshExpire returns after its loop.
RefreshReturn ==
    /\ wpc = "handle"
    /\ loop # Nil
    /\ loop.rest = <<>>
    /\ loop' = Nil
    /\ AfterHandler(loop.changed)
    /\ UNCHANGED <<storeVars, chanVars, started, lifeVars, clock, uuid,
                   callVars>>
    /\ UNCHANGED otherVars

\* ------------------------------------------------------------ PF manager
\* The anchor file as a list of managed blocks: what the emitter writes for
\* one rule.  The Expires header is written for a rule that is not
\* permanent; resolved_at has no line in the file.
FileBlock(r) ==
    [ID |-> r.ID, Domain |-> r.Domain, IPs |-> r.IPs,
     Expires |-> IF r.Permanent THEN 0 ELSE r.Expires]

\* The emitter: the blocks of the rules, in the order of the list.
emit(rules) ==
    [kind |-> "blocks", orphanEnd |-> FALSE,
     blocks |-> [i \in DOMAIN rules |-> FileBlock(rules[i])]]

\* What can go wrong in a Sync call: one of AtomicWrite's steps up to the
\* rename, or the reloader.
WriteFaults == {"CreateTemp", "Write", "Sync", "Close", "Chmod", "Rename"}
SyncFaults == {"none", "Reload"} \cup WriteFaults

\* An AtomicWrite that reports success without the rename.
AtomicWrite_NoRename(file, data, fault) ==
    IF fault \in WriteFaults THEN [file |-> file, err |-> TRUE]
    ELSE [file |-> file, err |-> FALSE]

\* filesys.AtomicWrite: a failure of a step up to the rename removes the
\* temp file and returns the error, the destination untouched; past the
\* rename the destination holds data (errors of the directory fsync are only
\* logged).
AtomicWrite(file, data, fault) ==
    IF fault \in WriteFaults THEN [file |-> file, err |-> TRUE]
    ELSE [file |-> data, err |-> FALSE]

\* Manager.Sync: serialize the rules, write the anchor file atomically, then
\* run the reloader; a reloader error is returned and the file stays.
Sync(file, rules, fault) ==
    LET w == AtomicWrite(file, emit(rules), fault)
    IN  IF w.err
        THEN [file |-> w.file, err |-> TRUE, steps |-> <<"serialize", "write">>]
        ELSE [file |-> w.file, err |-> fault = "Reload",
              steps |-> <<"serialize", "write", "reload">>]

\* Engine.syncPF up to its call of pfMgr.Sync with a snapshot of the store.
SyncPF ==
    /\ wpc = "sync"
    /\ pfRules' = Snapshot(store)
    /\ pfBusy' = pfBusy + 1
    /\ wpc' = "syncing"
    /\ UNCHANGED <<storeVars, chanVars, cur, loop, started, finished, lifeVars,
                   clock, uuid, pfErr, anchor, pfSteps, callVars, obsVars>>
    /\ UNCHANGED otherVars

\* A runLoop that returns when syncPF fails.
SyncReturn_StopsOnError ==
    /\ wpc = "syncing"
    /\ \E order \in Orders(pfRules), fault \in SyncFaults :
          LET r == Sync(anchor, order, fault)
          IN  /\ anchor' = r.file
              /\ pfErr' = r.err
              /\ pfSteps' = r.steps
              /\ wpc' = IF r.err THEN "exited" ELSE "select"
    /\ pfBusy' = pfBusy - 1
    /\ cur' = Nil
    /\ finished' = finished + 1
    /\ UNCHANGED <<storeVars, chanVars, loop, started, lifeVars, clock, uuid,
                   pfRules, callVars, obsVars>>
    /\ UNCHANGED otherVars

\* pfMgr.Sync runs on the list it was handed (a slice, in the order Snapshot
\* built it) and returns, with an error or without; runLoop logs an error
\* and its iteration is over.
SyncReturn ==
    /\ wpc = "syncing"
    /\ \E order \in Orders(pfRules), fault \in SyncFaults :
          LET r == Sync(anchor, order, fault)
          IN  /\ anchor' = r.file
              /\ pfErr' = r.err
              /\ pfSteps' = r.steps
    /\ pfBusy' = pfBusy - 1
    /\ wpc' = "select"
    /\ cur' = Nil
    /\ finished' = finished + 1
    /\ UNCHANGED <<storeVars, chanVars, loop, started, lifeVars, clock, uuid,
                   pfRules, callVars, obsVars>>
    /\ UNCHANGED otherVars

\* The worker's steps.
WorkerNext ==
    \/ WorkerReceive
    \/ WorkerExit
    \/ HandleBlock
    \/ HandleUnblock
    \/ HandleRefreshExpire
    \/ RefreshStep
    \/ RefreshReturn
    \/ SyncPF
    \/ SyncReturn

\* The engine with API tasks whose sends find room, the ticker and Close.
EngineNext ==
    \/ /\ accepted < MaxCmds
       /\ \/ \E d \in Domains, ttl \in TTLs : BlockDomain(d, ttl)
          \/ \E id \in 0..uuid : UnblockDomain(id)
          \/ TickerSend
    \/ TickerExit
    \/ Close
    \/ Advance
    \/ WorkerNext

EngineSpec == EngineInit /\ [][EngineNext]_vars

\* ------------------------------------------------- properties of the store
\* The entries the store holds: those filed in the id map or the domain map.
StoreEntries(s) == Range(s.byID) \cup Range(s.byDom)
Temporary(s) == {p \in StoreEntries(s) : ~s.ent[p].Permanent}
ExpiredPtrs(res) == {res.expired[i].ptr : i \in 1..Len(res.expired)}

\* C1: after every store call the expiry heap holds exactly the
\* non-permanent rules of the store, each once, and no heap entry has an
\* earlier Expires than its parent.
C1_HeapConsistent ==
    /\ SeqRange(store.expH) = Temporary(store)
    /\ Len(store.expH) = Cardinality(Temporary(store))
    /\ \A i \in 2..Len(store.expH) :
          store.ent[store.expH[i \div 2]].Expires <= store.ent[store.expH[i]].Expires

\* C2: ExpireNow(now) leaves no non-permanent rule with Expires <= now in
\* the store; it returns exactly the rules it removed, in ascending Expires
\* order, and each of them is gone from the id map and the domain map.
C2_ExpireNowRemovesAllDue ==
    \A now \in Times :
        LET res == ExpireNow(store, now)
        IN  /\ \A p \in Temporary(res.s) : res.s.ent[p].Expires > now
            /\ \A i, j \in 1..Len(res.expired) :
                  i < j => res.expired[i].rule.Expires <= res.expired[j].rule.Expires
            /\ Cardinality(ExpiredPtrs(res)) = Len(res.expired)
            /\ ExpiredPtrs(res) = StoreEntries(store) \ StoreEntries(res.s)
            /\ ExpiredPtrs(res) \cap StoreEntries(res.s) = {}

\* C3: every rule in the store is permanent exactly when its Expires is
\* the zero time.
C3_PermanentIffNoExpiry ==
    \A p \in StoreEntries(store) :
        store.ent[p].Permanent <=> (store.ent[p].Expires = 0)

\* C4: no two rules of the store share an id or a lower-cased domain, and
\* the id map and the domain map hold the same records.
C4_UniqueKeys ==
    /\ \A p, q \in StoreEntries(store) :
          p # q => /\ store.ent[p].ID # store.ent[q].ID
                   /\ ToLower(store.ent[p].Domain) # ToLower(store.ent[q].Domain)
    /\ Range(store.byID) = Range(store.byDom)
    /\ Cardinality(DOMAIN store.byID) = Cardinality(DOMAIN store.byDom)

\* C5: Upsert of a rule whose lower-cased domain is already stored under
\* another id adds no record: both maps keep their keys and their entries,
\* the count is unchanged, the stored rule keeps its id, and the caller's id
\* does not become a key.
C5_DuplicateDomainKeepsRecord ==
    \A r \in Rules :
        LET dom == ToLower(r.Domain)
        IN  (dom \in DOMAIN store.byDom /\ store.ent[store.byDom[dom]].ID # r.ID) =>
            LET p == store.byDom[dom]
                res == Upsert(store, r)
            IN  /\ res.s.byID = store.byID
                /\ res.s.byDom = store.byDom
                /\ DOMAIN res.s.ent = DOMAIN store.ent
                /\ res.s.count = store.count
                /\ res.s.ent[p].ID = store.ent[p].ID
                /\ (r.ID \notin DOMAIN store.byID => r.ID \notin DOMAIN res.s.byID)

\* An Upsert has run on a stored domain with an id other than the stored
\* one, spelled in another case than the stored domain.
C5_Witness ==
    /\ last.op = "Upsert"
    /\ last.path # "insert"
    /\ ~last.sameID
    /\ last.otherCase

\* C6: Upsert of a permanent rule over a temporary rule of the same domain
\* returns true and upgrades the stored record in place: it is permanent,
\* its Expires is zero, it is out of the heap, and its id, its place in the
\* maps and the rule count are unchanged.
C6_UpgradeInPlace ==
    \A r \in Rules :
        LET dom == ToLower(r.Domain)
        IN  (r.Permanent /\ dom \in DOMAIN store.byDom
               /\ ~store.ent[store.byDom[dom]].Permanent) =>
            LET p == store.byDom[dom]
                res == Upsert(store, r)
            IN  /\ res.changed
                /\ ~res.s.panic
                /\ res.s.ent[p].Permanent
                /\ res.s.ent[p].Expires = 0
                /\ p \notin SeqRange(res.s.expH)
                /\ Len(res.s.expH) = Len(store.expH) - 1
                /\ res.s.ent[p].ID = store.ent[p].ID
                /\ res.s.byID = store.byID
                /\ res.s.byDom = store.byDom
                /\ res.s.count = store.count

\* An upgrade has run and left a permanent rule out of the heap.
C6_Witness ==
    /\ last.op = "Upsert"
    /\ last.path = "upgrade"
    /\ \E p \in StoreEntries(store) : store.ent[p].Permanent

\* C7: Remove(id) of a stored id returns that rule with found = true and
\* takes it out of the id map, the domain map and the heap, leaving every
\* other rule, its keys and its heap membership as they were; Remove of an
\* unknown id returns (nil, false) and leaves the store unchanged.
C7_Remove ==
    \A id \in IDs :
        LET res == Remove(store, id)
        IN  IF id \in DOMAIN store.byID
            THEN LET p == store.byID[id]
                 IN  /\ res.found
                     /\ ~res.s.panic
                     /\ res.rule = [ptr |-> p, rule |-> RuleOf(store.ent[p])]
                     /\ res.s.byID = MapDel(store.byID, id)
                     /\ res.s.byDom = MapDel(store.byDom, ToLower(store.ent[p].Domain))
                     /\ p \notin StoreEntries(res.s)
                     /\ SeqRange(res.s.expH) = SeqRange(store.expH) \ {p}
                     /\ Len(res.s.expH) = Cardinality(SeqRange(store.expH) \ {p})
                     /\ \A q \in StoreEntries(store) \ {p} :
                           RuleOf(res.s.ent[q]) = RuleOf(store.ent[q])
            ELSE /\ ~res.found
                 /\ res.rule = Nil
                 /\ res.s = store

\* A Remove has found and removed a rule while another temporary rule
\* stays in the store.
C7_Witness ==
    /\ last.op = "Remove"
    /\ last.found
    /\ Len(store.expH) > 0

\* C8: UpdateResolvedAt(id, ts) returns true exactly when the id is
\* stored, and then sets that rule's ResolvedAt to ts and changes nothing
\* else of any rule nor the maps.
C8_UpdateResolvedAt ==
    \A id \in IDs, ts \in Stamps :
        LET res == UpdateResolvedAt(store, id, ts)
        IN  /\ res.found <=> (id \in DOMAIN store.byID)
            /\ res.s.byID = store.byID
            /\ res.s.byDom = store.byDom
            /\ id \in DOMAIN store.byID =>
                  /\ res.s.ent[store.byID[id]].ResolvedAt = ts
                  /\ \A q \in StoreEntries(store) :
                        [RuleOf(res.s.ent[q]) EXCEPT !.ResolvedAt = 0]
                          = [RuleOf(store.ent[q]) EXCEPT !.ResolvedAt = 0]
                  /\ \A q \in StoreEntries(store) \ {store.byID[id]} :
                        res.s.ent[q].ResolvedAt = store.ent[q].ResolvedAt

\* C9: with no Upsert since an ExpireNow(t1) call, a later ExpireNow(t2)
\* with t2 >= t1 returns none of the rules the earlier call returned.
C9_ExpiryMonotone ==
    \A now \in Times :
        \A p \in ExpiredPtrs(ExpireNow(store, now)) :
            ~(p \in DOMAIN returned /\ returned[p] <= now)

\* Two ExpireNow calls at t1 < t2 have each returned a rule, with no Upsert
\* in between.
C9_Witness ==
    /\ last.op = "ExpireNow"
    /\ last.n > 0
    /\ \E p, q \in DOMAIN returned : returned[p] < returned[q]

\* -------------------------------------------------- properties of the engine
\* C10: the worker dispatches commands in the order their sends completed,
\* one at a time: the k-th command dispatched is the k-th accepted, and a
\* command is dispatched only when the iteration of every earlier one
\* (handler and PF sync) is over.
C10_DispatchInAcceptOrder ==
    /\ \A i \in 1..Len(started) : started[i] = i
    /\ Len(started) = finished + (IF wpc \in {"handle", "sync", "syncing"} THEN 1 ELSE 0)
    /\ \A i \in 1..Len(cmdChan) : cmdChan[i].seq = Len(started) + i

\* The worker has finished a first command and is in the PF sync of a second
\* one, a reconcile tick, while a block command sent after it waits.
C10_Witness ==
    /\ wpc = "sync"
    /\ finished = 1
    /\ cur.type = "refresh"
    /\ Len(cmdChan) = 1
    /\ cmdChan[1].type = "block"

\* C11: the worker receives no command while the PF sync of the current one
\* is pending or running, so at most one pfMgr.Sync call is in progress, and
\* the rules handed to it are the store as the triggering command left it:
\* that command is the last one dispatched and the store changes only inside
\* handlers.
C11_SyncBeforeNextCommand ==
    /\ [](/\ pfBusy <= 1
          /\ (pfBusy = 1) <=> (wpc = "syncing")
          /\ wpc \in {"sync", "syncing"} => cur # Nil /\ cur.seq = Len(started)
          /\ wpc = "syncing" => pfRules = Snapshot(store))
    /\ [][/\ store' # store => wpc = "handle"
          /\ Len(started') > Len(started) => wpc = "select" /\ pfBusy = 0]_vars

\* A PF sync is in progress for the second command while a third, accepted
\* meanwhile, waits in the channel.
C11_Witness ==
    /\ wpc = "syncing"
    /\ finished = 1
    /\ Len(cmdChan) = 1
    /\ pfRules # {}

\* The engine with API tasks that also read the rules (GET /v1/rules).
SnapshotNext ==
    \/ EngineNext
    \/ SnapshotCall

SnapshotSpec == EngineInit /\ [][SnapshotNext]_vars

\* C12: what Engine.Snapshot returns to an API task while a command is
\* being handled is the store as it was before that command or as it is
\* after it, never a state in between.  (Checked when the handler returns,
\* where both states are known.)
C12_SnapshotLinearizable ==
    [][(wpc = "handle" /\ wpc' # "handle" /\ apiSnap # Nil) =>
          (apiSnap = pre \/ apiSnap = [rules |-> Snapshot(store')])]_vars

\* The stored rule of a lower-cased domain.
RuleOfDomain(s, dom) == RuleOf(s.ent[s.byDom[dom]])

\* C13: when a block request is processed for a domain that an earlier
\* block request has already stored, the later one wins: for any addresses
\* the resolver returns, the stored rule ends with the IPs, the Expires and
\* the Permanent flag of the rule built for the later request.
C13_SecondBlockWins ==
    (wpc = "handle" /\ cur.type = "block"
       /\ ToLower(cur.domain) \in DOMAIN store.byDom) =>
    \A res \in LookupResults :
        (~res.err /\ Len(res.ips) > 0) =>
        LET want == BlockRule(cur, res.ips, uuid + 1, clock)
            got == RuleOfDomain(handleBlock(store, cur, res, uuid + 1, clock).s,
                                ToLower(cur.domain))
        IN  /\ got.IPs = want.IPs
            /\ got.Expires = want.Expires
            /\ got.Permanent = want.Permanent

\* The entries of the store whose domain lower-cases to dom.
EntriesOfDomain(s, dom) == {p \in StoreEntries(s) : ToLower(s.ent[p].Domain) = dom}

\* C14: when a block command is processed for a domain that is not in the
\* store and the resolver returns a non-empty address list, the store then
\* holds exactly one rule for the domain, with those addresses and
\* ResolvedAt = now, permanent with zero Expires when ttl = 0 and temporary
\* with Expires = now + ttl (and on the heap) when ttl > 0, every other rule
\* is as before, and the handler asks for a PF sync.
C14_BlockNewDomain ==
    (wpc = "handle" /\ cur.type = "block"
       /\ ToLower(cur.domain) \notin DOMAIN store.byDom) =>
    \A res \in LookupResults :
        (~res.err /\ Len(res.ips) > 0) =>
        LET dom == ToLower(cur.domain)
            h == handleBlock(store, cur, res, uuid + 1, clock)
        IN  /\ h.needsSync
            /\ Cardinality(EntriesOfDomain(h.s, dom)) = 1
            /\ dom \in DOMAIN h.s.byDom
            /\ LET got == h.s.ent[h.s.byDom[dom]]
               IN  /\ got.IPs = res.ips
                   /\ got.ResolvedAt = clock
                   /\ got.Domain = cur.domain
                   /\ got.ID \in DOMAIN h.s.byID
                   /\ h.s.byID[got.ID] = h.s.byDom[dom]
                   /\ IF cur.ttl = 0
                      THEN /\ got.Permanent
                           /\ got.Expires = 0
                           /\ h.s.byDom[dom] \notin SeqRange(h.s.expH)
                      ELSE /\ ~got.Permanent
                           /\ got.Expires = clock + cur.ttl
                           /\ h.s.byDom[dom] \in SeqRange(h.s.expH)
            /\ Snapshot(h.s) \ {RuleOfDomain(h.s, dom)} = Snapshot(store)
            /\ h.s.count = store.count + 1

\* The worker has stored a temporary rule for a second, new domain and is
\* about to sync PF for it.
C14_Witness ==
    /\ wpc = "sync"
    /\ cur.type = "block"
    /\ cur.ttl > 0
    /\ uuid = 2
    /\ store.count = 2
    /\ Len(store.expH) >= 1

\* The engine with block requests only, each call followed from its entry
\* to its return, with callers whose ctx may end at any time.
CallerNext ==
    \/ /\ accepted < MaxCmds
       /\ \E d \in Domains, ttl \in TTLs, done \in BOOLEAN : CallBlockDomain(d, ttl, done)
    \/ CallerCtxDone
    \/ BlockDomainSend
    \/ BlockDomainCtxErr
    \/ Close
    \/ Advance
    \/ WorkerReceive
    \/ WorkerExit
    \/ HandleBlock
    \/ SyncPF
    \/ SyncReturn

CallerSpec == EngineInit /\ [][CallerNext]_vars

\* The lookups that make handleBlock give up: an error or no address.
FailedLookups == {res \in LookupResults : res.err \/ Len(res.ips) = 0}

\* C15: when the resolver returns an error or no address for a block
\* command, the handler leaves the store as it is, takes no id and asks for
\* no PF sync; the step that ends such a handler leaves the worker at its
\* select, ready for the next command, starts no pfMgr.Sync, and changes
\* nothing of what BlockDomain returned to its caller.
C15_FailedLookupChangesNothing ==
    /\ []((wpc = "handle" /\ cur.type = "block") =>
            \A res \in FailedLookups :
                LET h == handleBlock(store, cur, res, uuid + 1, clock)
                IN  h.s = store /\ ~h.needsSync /\ ~h.newID)
    /\ [][(wpc = "handle" /\ cur.type = "block" /\ wpc' # "handle" /\ uuid' = uuid) =>
            /\ store' = store
            /\ wpc' = "select"
            /\ finished' = finished + 1
            /\ UNCHANGED <<pfVars, callVars, cmdChan>>]_vars

\* Two block commands have been processed, the caller of the last one got
\* nil, one lookup failed, and the store holds the rule of the other.
C15_Witness ==
    /\ wpc = "select"
    /\ finished = 2
    /\ uuid = 1
    /\ store.count = 1
    /\ blockRet # Nil
    /\ ~blockRet.err

\* C16: handling Unblock{id} asks for a PF sync exactly when a rule with
\* that id was stored, and then that rule is gone from the store and from
\* the rules handed to pfMgr.Sync; an unknown id leaves the store as it is.
\* When the store held only that rule (a block followed by its unblock), the
\* store is empty afterwards.
C16_UnblockSyncsIffRemoved ==
    /\ (wpc = "handle" /\ cur.type = "unblock") =>
          LET h == handleUnblock(store, cur)
          IN  /\ h.needsSync <=> (cur.id \in DOMAIN store.byID)
              /\ cur.id \notin DOMAIN store.byID => h.s = store
              /\ cur.id \in DOMAIN store.byID =>
                    /\ \A r \in Snapshot(h.s) : r.ID # cur.id
                    /\ Snapshot(h.s) = Snapshot(store) \ {RuleOf(store.ent[store.byID[cur.id]])}
                    /\ h.s.count = store.count - 1
                    /\ store.count = 1 =>
                          /\ h.s.byID = <<>> /\ h.s.byDom = <<>> /\ h.s.expH = <<>>
                          /\ Snapshot(h.s) = {}
    /\ (wpc = "syncing" /\ cur.type = "unblock") =>
          /\ \A r \in pfRules : r.ID # cur.id
          /\ pfRules = Snapshot(store)

\* A permanent block and the unblock of its id have been processed: the
\* store is empty and pfMgr.Sync is running with no rule.
C16_Witness ==
    /\ wpc = "syncing"
    /\ cur.type = "unblock"
    /\ cur.id = 1
    /\ uuid = 1
    /\ finished = 1
    /\ store.count = 0
    /\ pfRules = {}

\* The engine with the ticker and unblock requests only, each call followed
\* from its entry to its return, in runs long enough to fill the channel.
SaturatedNext ==
    \/ /\ accepted < MaxSends
       /\ \/ \E id \in 0..uuid : CallUnblockDomain(id)
          \/ TickerSend
    \/ UnblockDomainSend
    \/ TickerSkip
    \/ TickerExit
    \/ Close
    \/ WorkerReceive
    \/ WorkerExit
    \/ HandleUnblock
    \/ HandleRefreshExpire
    \/ RefreshReturn

SaturatedSpec == EngineInit /\ [][SaturatedNext]_vars

\* C17: UnblockDomain always returns: also once the worker has exited, a
\* call that is waiting in its select can still leave it (by sending, or by
\* dropping the command).
C17_UnblockDomainReturns ==
    (unblockCall # Nil /\ wpc = "exited") => ENABLED UnblockDomainSend

\* C19: at a tick the ticker never waits: it can send, drop the tick or
\* leave, whatever the state of the channel; a dropped tick happens on a full
\* channel and changes nothing of the engine, the ticker staying up for the
\* next tick; a tick that is sent adds one reconcile command; and a worker
\* at its select with a command buffered can always receive it.
C19_TickerNeverWaits ==
    /\ [](tickerUp => ENABLED (TickerSend \/ TickerSkip \/ TickerExit))
    /\ []((wpc = "select" /\ cmdChan # <<>>) => ENABLED WorkerReceive)
    /\ [][last' # last =>
            /\ Len(cmdChan) = commandBufferSize
            /\ tickerUp'
            /\ UNCHANGED <<store, engineVars>>]_vars
    /\ [][(accepted' # accepted /\ cmdChan'[Len(cmdChan')].type = "refresh") =>
            /\ tickerUp /\ tickerUp'
            /\ cmdChan' = Append(cmdChan, refreshExpireCmd @@ [seq |-> accepted'])
            /\ accepted' = accepted + 1]_vars

\* A tick was dropped on a full channel, the ticker is still running, and
\* the worker has since received the oldest command.
C19_Witness ==
    /\ last.op = "TickerSkip"
    /\ tickerUp
    /\ wpc = "handle"
    /\ Len(cmdChan) = commandBufferSize - 1

\* C18: a BlockDomain call returns nil exactly when its command was put on
\* the channel, and returns ctx.Err() exactly when its caller's ctx had
\* ended before the select chose; a call that returned an error sent
\* nothing; and a waiting call whose ctx has ended can always return.
C18_BlockDomainResult ==
    /\ blockRet # Nil =>
          /\ ~blockRet.err <=> blockRet.sent
          /\ blockRet.err <=> blockRet.ctxDone
    /\ (blockCall # Nil /\ blockCall.ctxDone) => ENABLED BlockDomainCtxErr

\* The worker's steps inside an iteration: handlers (whose resolver calls
\* return) and the PF sync (which returns).
InIteration ==
    \/ HandleBlock
    \/ HandleUnblock
    \/ HandleRefreshExpire
    \/ RefreshStep
    \/ RefreshReturn
    \/ SyncPF
    \/ SyncReturn

\* The engine serving block and unblock requests for one domain, the ticker
\* and Close, at one clock time.
CloseNext ==
    \/ /\ accepted < MaxCmds
       /\ \/ \E ttl \in TTLs : BlockDomain(LowerDomains[1], ttl)
          \/ \E id \in 0..uuid : UnblockDomain(id)
          \/ TickerSend
    \/ TickerExit
    \/ Close
    \/ WorkerNext

\* That engine with goroutines that keep running: calls made by the worker
\* return, the ticker's select takes ctx.Done once it is ready for good, and
\* the worker's select, which picks at random among its ready cases, does
\* not pass over ctx.Done for ever.
EngineLiveSpec ==
    /\ EngineInit
    /\ [][CloseNext]_vars
    /\ WF_vars(InIteration)
    /\ WF_vars(TickerExit)
    /\ SF_vars(WorkerExit)

\* C20: once Close has cancelled the context, the worker and the ticker
\* both exit (so that Close's wg.Wait returns); the worker exits only from
\* its select, so a command it had received is first carried to the end of
\* its iteration, PF sync included.
C20_CloseStopsEngine ==
    /\ cancelled ~> (wpc = "exited" /\ ~tickerUp)
    /\ [](wpc = "exited" =>
            cur = Nil /\ loop = Nil /\ pfBusy = 0 /\ finished = Len(started))
    /\ [][(wpc # "exited" /\ wpc' = "exited") => (wpc = "select" /\ cancelled)]_vars
    /\ [][(wpc = "sync" /\ wpc' # "sync") => wpc' = "syncing"]_vars

\* Close has been called while the worker is in the PF sync of the command
\* it had received; the ticker has already exited.
C20_Witness ==
    /\ cancelled
    /\ ~tickerUp
    /\ wpc = "syncing"
    /\ cur.type = "block"
    /\ cmdChan # <<>>

\* --------------------------------------------------------- reconcile ticks
\* Number of commands sent in a run of block requests and reconcile ticks.
MaxReconcileCmds == 4

\* The engine with block requests for lower-case domains, the ticker and the
\* clock: the runs in which rules are created, re-blocked, expired and
\* refreshed.
ReconcileNext ==
    \/ /\ accepted < MaxReconcileCmds
       /\ \/ \E i \in DOMAIN LowerDomains, ttl \in TTLs :
                BlockDomain(LowerDomains[i], ttl)
          \/ TickerSend
    \/ Advance
    \/ WorkerReceive
    \/ HandleBlock
    \/ HandleRefreshExpire
    \/ RefreshStep
    \/ RefreshReturn
    \/ SyncPF
    \/ SyncReturn

ReconcileSpec == EngineInit /\ [][ReconcileNext]_vars

\* C21: when handleRefreshExpire returns from a tick it handled at time
\* now, the store holds no temporary rule with expires_at <= now (the PF
\* sync of the tick, if any, carries the store as the handler left it).
C21_ExpiredOnTick ==
    [][(wpc = "handle" /\ loop # Nil /\ loop' = Nil)
         => \A r \in Snapshot(store') : r.Permanent \/ r.Expires > loop.now]_vars

\* The ids of the permanent rules of a store.
PermanentIDs(s) == {id \in DOMAIN s.byID : s.ent[s.byID[id]].Permanent}

\* C22: no permanent entry is ever on the expiry heap, and a permanent rule
\* is still in the store, permanent and under its id, after every step of
\* the engine except the handling of an unblock command that names its id.
C22_PermanentNeverExpires ==
    /\ [](\A p \in SeqRange(store.expH) : ~store.ent[p].Permanent)
    /\ [][\A id \in PermanentIDs(store) :
            \/ wpc = "handle" /\ cur.type = "unblock" /\ cur.id = id
            \/ /\ id \in PermanentIDs(store')
               /\ store'.ent[store'.byID[id]].Domain = store.ent[store.byID[id]].Domain]_vars

\* A reconcile tick has run ExpireNow at a time at or after the expires_at
\* that a later temporary block of the same domain left on a permanent rule,
\* and the rule is still there.
C22_Witness ==
    /\ wpc = "handle" /\ cur.type = "refresh" /\ loop # Nil
    /\ \E id \in PermanentIDs(store) :
          LET e == store.ent[store.byID[id]]
          IN  e.Expires # 0 /\ e.Expires <= loop.now

\* The stored rule with the given id, and whether its entry is on the heap.
RuleOfID(s, id) == RuleOf(s.ent[s.byID[id]])
OnHeap(s, id) == s.byID[id] \in SeqRange(s.expH)

\* The loop of handleRefreshExpire is at a stale rule: the resolver is about
\* to be asked for its domain.
AtStaleRule ==
    /\ wpc = "handle" /\ loop # Nil /\ loop.rest # <<>>
    /\ Stale(Head(loop.rest), clock)

\* C23: wherever the refresh loop stands at a stale rule, for every answer
\* of the resolver that differs as a set from the rule's ips, the loop body
\* leaves the rule with the new ips and resolved_at = now, with its id,
\* domain, expires_at, permanent flag and heap membership as before, and
\* sets changed; and once changed is set the tick ends in a PF sync.
C23_RefreshNewIPs ==
    /\ [](AtStaleRule =>
            LET rule == Head(loop.rest)
            IN  \A res \in LookupResults :
                   (~res.err /\ SeqRange(res.ips) # SeqRange(rule.IPs)) =>
                      LET r == RefreshRule(store, rule, loop.now, res)
                      IN  /\ r.changed
                          /\ rule.ID \in DOMAIN r.s.byID
                          /\ SeqRange(RuleOfID(r.s, rule.ID).IPs) = SeqRange(res.ips)
                          /\ RuleOfID(r.s, rule.ID).ResolvedAt = loop.now
                          /\ RuleOfID(r.s, rule.ID).Domain = rule.Domain
                          /\ RuleOfID(r.s, rule.ID).Expires = rule.Expires
                          /\ RuleOfID(r.s, rule.ID).Permanent = rule.Permanent
                          /\ r.s.byID = store.byID
                          /\ r.s.byDom = store.byDom
                          /\ r.s.expH = store.expH
                          /\ OnHeap(r.s, rule.ID) = OnHeap(store, rule.ID))
    /\ [][(loop # Nil /\ loop.changed) =>
            \/ loop' # Nil /\ loop'.changed
            \/ loop' = Nil /\ wpc' = "sync"]_vars

\* A tick has just given a temporary rule new, non-empty addresses: the
\* stored rule differs in ips from the rule the tick found and carries the
\* tick's time.
C23_Witness ==
    /\ wpc = "handle" /\ loop # Nil /\ loop.changed /\ pre # Nil
    /\ \E old \in pre.rules :
          /\ old.ID \in DOMAIN store.byID
          /\ ~old.Permanent
          /\ old.ResolvedAt < loop.now
          /\ RuleOfID(store, old.ID).IPs # <<>>
          /\ SeqRange(RuleOfID(store, old.ID).IPs) # SeqRange(old.IPs)
          /\ RuleOfID(store, old.ID).ResolvedAt = loop.now
          /\ OnHeap(store, old.ID)

\* C24: wherever the refresh loop stands at a stale rule, a failing lookup
\* leaves the whole store as it is (the rule keeps its ips, resolved_at,
\* expires_at and id) and does not set changed; whatever the lookup returns,
\* the loop goes on with the next rule of its snapshot, and the handler
\* returns only when the snapshot is exhausted.
C24_FailedRefreshKeepsRule ==
    /\ [](AtStaleRule =>
            \A res \in LookupResults :
               res.err =>
                  LET r == RefreshRule(store, Head(loop.rest), loop.now, res)
                  IN  r.s = store /\ ~r.changed)
    /\ [][(loop # Nil /\ loop' # Nil /\ loop' # loop) =>
            loop'.rest = Tail(loop.rest) /\ loop'.now = loop.now]_vars
    /\ [][(loop # Nil /\ loop' = Nil) => loop.rest = <<>>]_vars

\* The lookup for a stale rule has failed (the rule is as the tick found it,
\* though stale at the tick's time) and the loop now stands at the other
\* rule, stale as well.
C24_Witness ==
    /\ AtStaleRule /\ Len(loop.rest) = 1 /\ pre # Nil
    /\ \E a \in Snapshot(store) :
          /\ a.ID # Head(loop.rest).ID
          /\ a \in pre.rules
          /\ Stale(a, loop.now)

\* C25: wherever the refresh loop stands at a stale rule, for every answer
\* of the resolver that equals the rule's ips as a set, the loop body sets
\* the rule's resolved_at to now and sets changed (so that the tick ends in
\* a PF sync), whatever the case of the letters of the stored domain.
C25_RefreshSameIPs ==
    AtStaleRule =>
       LET rule == Head(loop.rest)
       IN  \A res \in LookupResults :
              (~res.err /\ SeqRange(res.ips) = SeqRange(rule.IPs)) =>
                 LET r == RefreshRule(store, rule, loop.now, res)
                 IN  /\ rule.ID \in DOMAIN r.s.byID
                     /\ RuleOfID(r.s, rule.ID).ResolvedAt = loop.now
                     /\ r.changed

\* C30: every rule of a list handed to pfMgr.Sync has at least one address.
C30_NoEmptyRuleEmitted ==
    \A r \in pfRules : r.IPs # <<>>

\* ------------------------------------------------------------ initial load
\* Number of managed blocks in the anchor file found at start-up.
MaxBlocks == 2
\* Number of commands sent in a run that starts with Run().
MaxLoadCmds == 1

\* The ids found in anchor files left by an earlier run (never handed out
\* again by uuid.NewString).
FileIDs == {8, 9}

\* The managed blocks of those files, and the files: none, or a list of
\* complete blocks, possibly followed by an END line that closes nothing.
FileBlocks ==
    {[ID |-> id, Domain |-> d, IPs |-> l, Expires |-> e] :
        id \in FileIDs, d \in Domains, l \in IPLists, e \in {0, 2}}
BlockLists == UNION {[1..n -> FileBlocks] : n \in 0..MaxBlocks}
AnchorFiles ==
    {NoFile} \cup
    {[kind |-> "blocks", orphanEnd |-> o, blocks |-> bs] :
        o \in BOOLEAN, bs \in BlockLists}

\* The parser, for one complete block: permanent iff there is no Expires
\* header; the file has no resolved_at.
ParseBlock(b) ==
    [ID |-> b.ID, Domain |-> b.Domain, IPs |-> b.IPs, Expires |-> b.Expires,
     Permanent |-> b.Expires = 0, ResolvedAt |-> 0]

\* The parser (walk): the rules of the file in file order, or an error and
\* no rule at all for an orphan END or for two complete blocks with one id.
walk(file) ==
    IF \/ file.orphanEnd
       \/ \E i, j \in DOMAIN file.blocks : i # j /\ file.blocks[i].ID = file.blocks[j].ID
    THEN [rules |-> <<>>, err |-> "codec"]
    ELSE [rules |-> [i \in DOMAIN file.blocks |-> ParseBlock(file.blocks[i])],
          err |-> "none"]

\* Manager.CurrentRules: what it can return for the file on disk.  For an
\* absent file it returns no rule, without an error or with fs.ErrNotExist
\* (the engine is written for both).
CurrentRulesResults(file) ==
    IF file = NoFile
    THEN {[rules |-> <<>>, err |-> "none"], [rules |-> <<>>, err |-> "notexist"]}
    ELSE {walk(file)}

\* Engine.loadInitialRules, its loop: Upsert of each rule, with ResolvedAt
\* set to time.Now() when it is zero.
RECURSIVE LoadLoop(_, _, _)
LoadLoop(s, rules, t) ==
    IF rules = <<>> THEN s
    ELSE LET r == Head(rules)
             ruleToLoad == IF r.ResolvedAt = 0 THEN [r EXCEPT !.ResolvedAt = t] ELSE r
         IN  LoadLoop(Upsert(s, ruleToLoad).s, Tail(rules), t)

\* Engine.loadInitialRules, given what CurrentRules returns: the store it
\* leaves and whether it returns an error.
loadInitialRules(s, res, t) ==
    IF res.err = "notexist" THEN [s |-> s, err |-> FALSE]
    ELSE IF res.err # "none" THEN [s |-> s, err |-> TRUE]
    ELSE [s |-> LoadLoop(s, res.rules, t), err |-> FALSE]

\* A Run that gives up when the initial load fails: no worker, no ticker.
Run_StopsOnLoadError ==
    /\ wpc = "new"
    /\ \E res \in CurrentRulesResults(anchor) :
          LET l == loadInitialRules(store, res, clock)
          IN  /\ store' = Collect(l.s)
              /\ IF l.err
                 THEN wpc' = "exited" /\ UNCHANGED tickerUp
                 ELSE wpc' = "select" /\ tickerUp' = TRUE
    /\ UNCHANGED <<last, returned, chanVars, cur, loop, started, finished,
                   cancelled, clock, uuid, pfVars, callVars, obsVars>>
    /\ UNCHANGED otherVars

\* Engine.Run: load the initial rules (an error is only logged), then start
\* runLoop and runTicker.
Run ==
    /\ wpc = "new"
    /\ \E res \in CurrentRulesResults(anchor) :
          store' = Collect(loadInitialRules(store, res, clock).s)
    /\ wpc' = "select"
    /\ tickerUp' = TRUE
    /\ UNCHANGED <<last, returned, chanVars, cur, loop, started, finished,
                   cancelled, clock, uuid, pfVars, callVars, obsVars>>
    /\ UNCHANGED otherVars

\* The engine after New, before Run, on a host with any of the anchor files.
LoadInit ==
    /\ store = NewStore
    /\ last = NoCall
    /\ returned = <<>>
    /\ cmdChan = <<>>
    /\ wpc = "new"
    /\ cur = Nil
    /\ cancelled = FALSE
    /\ tickerUp = FALSE
    /\ clock = 1
    /\ uuid = 0
    /\ pfRules = {}
    /\ pfErr = FALSE
    /\ pfBusy = 0
    /\ anchor \in AnchorFiles
    /\ pfSteps = <<>>
    /\ loop = Nil
    /\ blockCall = Nil
    /\ blockRet = Nil
    /\ unblockCall = Nil
    /\ pre = Nil
    /\ apiSnap = Nil
    /\ accepted = 0
    /\ started = <<>>
    /\ finished = 0
    /\ NoWrite
    /\ NoCodec
    /\ NoConnect

\* Run, then block requests and ticks handled by the worker.
LoadNext ==
    \/ Run
    \/ /\ accepted < MaxLoadCmds
       /\ \/ \E d \in Domains, ttl \in TTLs : BlockDomain(d, ttl)
          \/ TickerSend
    \/ WorkerReceive
    \/ HandleBlock
    \/ HandleRefreshExpire
    \/ RefreshStep
    \/ RefreshReturn
    \/ SyncPF
    \/ SyncReturn

LoadSpec == LoadInit /\ [][LoadNext]_vars

\* A rule without its resolved_at, as the anchor file can tell it.
OnDisk(r) == [r EXCEPT !.ResolvedAt = 0]

\* C26: when Run finds an anchor file of well-formed blocks with distinct
\* ids, the store it leaves holds exactly the parsed rules (ids, domains,
\* ips, expires_at, permanent), each with a non-zero resolved_at, and no PF
\* sync has been issued and the file is as it was.
C26_LoadMatchesFile ==
    [][(wpc = "new" /\ wpc' = "select" /\ anchor # NoFile /\ walk(anchor).err = "none")
         => /\ {OnDisk(r) : r \in Snapshot(store')} = SeqRange(walk(anchor).rules)
            /\ \A r \in Snapshot(store') : r.ResolvedAt # 0
            /\ pfBusy' = 0 /\ pfSteps' = <<>> /\ pfRules' = {}
            /\ anchor' = anchor]_vars

\* The anchor file on disk is one the parser rejects.
Unparsable == anchor # NoFile /\ walk(anchor).err # "none"

\* C27: when Run finds an anchor file the parser rejects, it starts the
\* worker and the ticker with an empty store; the first block command whose
\* lookup succeeds (the one that gets the first id) then stores its rule and
\* goes on to a PF sync, and the list handed to pfMgr.Sync is that one rule.
C27_StartsAfterBadAnchor ==
    /\ [][(wpc = "new" /\ wpc' # "new" /\ Unparsable) =>
            wpc' = "select" /\ tickerUp' /\ ~cancelled' /\ store' = NewStore]_vars
    /\ [][(Unparsable /\ uuid = 0 /\ uuid' = 1) =>
            /\ wpc = "handle" /\ cur.type = "block" /\ wpc' = "sync"
            /\ Cardinality(Snapshot(store')) = 1]_vars
    /\ [](Unparsable /\ wpc = "syncing" /\ cur.type = "block" /\ uuid = 1 =>
            /\ pfRules = Snapshot(store)
            /\ \E res \in LookupResults :
                  /\ ~res.err /\ res.ips # <<>>
                  /\ pfRules = {BlockRule(cur, res.ips, 1, clock)})

\* After Run on a file with a complete block followed by an orphan END, the
\* worker is in the PF sync of the first block command.
C27_Witness ==
    /\ anchor # NoFile /\ anchor.orphanEnd /\ anchor.blocks # <<>>
    /\ wpc = "syncing" /\ cur.type = "block" /\ uuid = 1
    /\ Cardinality(pfRules) = 1

\* The managed blocks of the anchor file, as a set.
AnchorBlocks == IF anchor = NoFile THEN {} ELSE SeqRange(anchor.blocks)

\* C28: when pfMgr.Sync returns, with an error or without, the store and
\* the command channel are as they were and the worker is back at its
\* select, where a buffered command can be received; and when it returns
\* without an error the anchor file holds the blocks of all the rules of
\* the store, those of earlier commands whose sync failed included.
C28_SyncFailureKeepsState ==
    /\ [][(wpc = "syncing" /\ wpc' # "syncing") =>
            /\ store' = store
            /\ cmdChan' = cmdChan
            /\ wpc' = "select"
            /\ (~pfErr' => AnchorBlocks' = {FileBlock(r) : r \in Snapshot(store)})]_vars
    /\ []((wpc = "select" /\ cmdChan # <<>>) => ENABLED WorkerReceive)

\* The sync of an earlier command failed in the write (there is still no
\* anchor file) and the worker, having handled a later command, is in a
\* sync that carries the rules of both.
C28_Witness ==
    /\ wpc = "syncing" /\ pfErr /\ anchor = NoFile
    /\ Len(started) >= 2
    /\ Cardinality(pfRules) = 2

MaxLen == 2
Bytes == {1, 2}
Contents == UNION {[1..n -> Bytes] : n \in 0..MaxLen}

\* A file: its bytes and its mode ("0600" is what CreateTemp gives, "perm"
\* the mode the caller asked for).
File(data, mode) == [kind |-> "file", data |-> data, mode |-> mode]

\* The calls that can fail in a run: the six steps up to the rename and the
\* removal of the temp file.
Failures == WriteFaults \cup {"Remove"}

\* A call AtomicWrite(fs, dst, data, perm) about to start, dst absent or
\* holding some content.
WriteInit ==
    /\ EngineStarted
    /\ NoCodec
    /\ NoConnect
    /\ dst \in {NoFile} \cup {File(c, "perm") : c \in Contents}
    /\ tmp = NoFile
    /\ awpc = "CreateTemp"
    /\ awErr = "nil"
    /\ awArgs \in [data : Contents, pre : {dst}, faults : SUBSET Failures]

\* Whether the step the call is at fails in this run.
Fails == awpc \in awArgs.faults

\* tmp, err := fs.CreateTemp(dir, ".void-*"): an empty file of mode 0600, or
\* the error returned at once.
fsCreateTemp ==
    /\ awpc = "CreateTemp"
    /\ IF Fails
       THEN /\ awErr' = "CreateTemp"
            /\ awpc' = "returned"
            /\ tmp' = tmp
       ELSE /\ tmp' = File(<<>>, "0600")
            /\ awpc' = "Write"
            /\ awErr' = awErr
    /\ UNCHANGED <<dst, awArgs>>
    /\ UNCHANGED allButFs

\* A write that goes to the destination as well as to the temp file.
tmpWrite_InPlace ==
    /\ awpc = "Write"
    /\ \/ /\ Len(tmp.data) < Len(awArgs.data)
          /\ tmp' = File(Append(tmp.data, awArgs.data[Len(tmp.data) + 1]),
                         tmp.mode)
          /\ dst' = File(tmp'.data, "perm")
          /\ UNCHANGED <<awpc, awErr>>
       \/ /\ Len(tmp.data) = Len(awArgs.data)
          /\ ~Fails
          /\ awpc' = "Sync"
          /\ UNCHANGED <<tmp, awErr, dst>>
       \/ /\ Fails
          /\ awErr' = "Write"
          /\ awpc' = "Close"
          /\ UNCHANGED <<tmp, dst>>
    /\ UNCHANGED awArgs
    /\ UNCHANGED allButFs

\* tmp.Write(data): the bytes reach the temp file one after the other; the
\* call returns when all are written, or fails with some of them written,
\* and then tmp.Sync is skipped.
tmpWrite ==
    /\ awpc = "Write"
    /\ \/ /\ Len(tmp.data) < Len(awArgs.data)
          /\ tmp' = File(Append(tmp.data, awArgs.data[Len(tmp.data) + 1]),
                         tmp.mode)
          /\ UNCHANGED <<awpc, awErr>>
       \/ /\ Len(tmp.data) = Len(awArgs.data)
          /\ ~Fails
          /\ awpc' = "Sync"
          /\ UNCHANGED <<tmp, awErr>>
       \/ /\ Fails
          /\ awErr' = "Write"
          /\ awpc' = "Close"
          /\ tmp' = tmp
    /\ UNCHANGED <<dst, awArgs>>
    /\ UNCHANGED allButFs

\* err = tmp.Sync().
tmpSync ==
    /\ awpc = "Sync"
    /\ awErr' = IF Fails THEN "Sync" ELSE awErr
    /\ awpc' = "Close"
    /\ UNCHANGED <<dst, tmp, awArgs>>
    /\ UNCHANGED allButFs

\* A Close after which the call goes on whatever err holds.
tmpClose_IgnoresError ==
    /\ awpc = "Close"
    /\ awErr' = "nil"
    /\ awpc' = "Chmod"
    /\ UNCHANGED <<dst, tmp, awArgs>>
    /\ UNCHANGED allButFs

\* cerr := tmp.Close(); err keeps the first error; with an error the temp
\* file is removed next.
tmpClose ==
    /\ awpc = "Close"
    /\ awErr' = IF awErr = "nil" /\ Fails THEN "Close" ELSE awErr
    /\ awpc' = IF awErr' = "nil" THEN "Chmod" ELSE "Remove"
    /\ UNCHANGED <<dst, tmp, awArgs>>
    /\ UNCHANGED allButFs

\* fs.Remove(tmp.Name()) on an error path: a failure of the removal is only
\* logged and the temp file stays; the call returns err.
fsRemove ==
    /\ awpc = "Remove"
    /\ tmp' = IF Fails THEN tmp ELSE NoFile
    /\ awpc' = "returned"
    /\ UNCHANGED <<dst, awErr, awArgs>>
    /\ UNCHANGED allButFs

\* err = fs.Chmod(tmp.Name(), perm).
fsChmod ==
    /\ awpc = "Chmod"
    /\ IF Fails
       THEN /\ awErr' = "Chmod"
            /\ awpc' = "Remove"
            /\ tmp' = tmp
       ELSE /\ tmp' = File(tmp.data, "perm")
            /\ awpc' = "Rename"
            /\ awErr' = awErr
    /\ UNCHANGED <<dst, awArgs>>
    /\ UNCHANGED allButFs

\* err = fs.Rename(tmp.Name(), dst): the temp file becomes the destination
\* in one step.
fsRename ==
    /\ awpc = "Rename"
    /\ IF Fails
       THEN /\ awErr' = "Rename"
            /\ awpc' = "Remove"
            /\ UNCHANGED <<dst, tmp>>
       ELSE /\ dst' = tmp
            /\ tmp' = NoFile
            /\ awpc' = "dirSync"
            /\ awErr' = awErr
    /\ UNCHANGED awArgs
    /\ UNCHANGED allButFs

\* fs.Open(dir), d.Sync(), d.Close(): their errors are only logged; the call
\* returns nil.
dirSync ==
    /\ awpc = "dirSync"
    /\ awpc' = "returned"
    /\ UNCHANGED <<dst, tmp, awErr, awArgs>>
    /\ UNCHANGED allButFs

\* The process dies between two steps of the call.
Crash ==
    /\ awpc \notin {"idle", "returned", "crashed"}
    /\ awpc' = "crashed"
    /\ UNCHANGED <<dst, tmp, awErr, awArgs>>
    /\ UNCHANGED allButFs

WriteNext ==
    \/ fsCreateTemp
    \/ tmpWrite
    \/ tmpSync
    \/ tmpClose
    \/ fsRemove
    \/ fsChmod
    \/ fsRename
    \/ dirSync
    \/ Crash

WriteSpec == WriteInit /\ [][WriteNext]_vars

\* The destination after a complete write of the call's data.
NewFile == File(awArgs.data, "perm")

\* C31: after a crash between any two steps of AtomicWrite the destination
\* holds its complete content of before the call or the complete new
\* content, never a part or a mix of them.
C31_CrashLeavesOldOrNew ==
    awpc = "crashed" => dst \in {awArgs.pre, NewFile}

\* C31 happens: the process died with part of the data in the temp file, the
\* destination still holding its different old content.
C31_Witness ==
    /\ awpc = "crashed"
    /\ tmp # NoFile
    /\ Len(tmp.data) = 1
    /\ Len(awArgs.data) = 2
    /\ dst = awArgs.pre
    /\ dst # NoFile
    /\ dst # NewFile

\* The steps of AtomicWrite up to the rename, in the order of the code.
StepOrder == <<"CreateTemp", "Write", "Sync", "Close", "Chmod", "Rename">>

\* The first step of the call that fails in this run.
FirstFault ==
    StepOrder[CHOOSE i \in DOMAIN StepOrder :
                 /\ StepOrder[i] \in awArgs.faults
                 /\ \A j \in 1..(i - 1) : StepOrder[j] \notin awArgs.faults]

\* A step up to the rename fails in this run and the call has returned.
ReturnedAfterFault ==
    /\ awpc = "returned"
    /\ awArgs.faults \cap WriteFaults # {}

\* C32 as stated: when a step up to and including the rename fails,
\* AtomicWrite returns that error, the destination is unchanged and no temp
\* file of the call is left in the directory.
C32_FailureCleansUp ==
    ReturnedAfterFault =>
        /\ awErr = FirstFault
        /\ dst = awArgs.pre
        /\ tmp = NoFile

\* C32 amended: when a step up to and including the rename fails,
\* AtomicWrite returns that error and the destination is unchanged; the temp
\* file of the call is gone unless its removal failed as well, which the
\* call only logs.
C32_FailureCleansUpUnlessRemoveFails ==
    ReturnedAfterFault =>
        /\ awErr = FirstFault
        /\ dst = awArgs.pre
        /\ tmp # NoFile => ("Remove" \in awArgs.faults /\ awErr # "CreateTemp")
        /\ ("Remove" \notin awArgs.faults) => tmp = NoFile

\* C32 happens: the rename failed after the whole data reached the temp
\* file; the call returned that error, the temp file is gone and the
\* destination holds its different old content.
C32_Witness ==
    /\ awpc = "returned"
    /\ awErr = "Rename"
    /\ Len(awArgs.data) = 2
    /\ tmp = NoFile
    /\ dst = awArgs.pre
    /\ dst # NewFile

\* ------------------------------------------------------------ anchor codec
\* The anchor text, line by line.  The longest text given to the parser.
MaxLines == 5

\* The addresses of block lines: "ip1" stands for a v4 literal, "ip2" for a
\* v6 literal; both are written bare.
Addrs == {"ip1", "ip2"}

\* The lines of the grammar of a managed block, and any other line (the
\* header, PF options, blank lines, hand-written text).
BeginLine(id) == [t |-> "BEGIN", id |-> id]
EndLine(id) == [t |-> "END", id |-> id]
DomainLine(d) == [t |-> "Domain", dom |-> d]
ExpiresLine(e) == [t |-> "Expires", exp |-> e]
BlockLine(proto, addr) == [t |-> "block", proto |-> proto, addr |-> addr]
OtherLine == [t |-> "other"]

\* The rule of a block that has just been opened.
OpenedRule(id) ==
    [ID |-> id, Domain |-> <<>>, IPs |-> <<>>, Expires |-> 0,
     Permanent |-> TRUE, ResolvedAt |-> 0]

\* The parser before the first line: no block open, no rule yet.
ParserStart ==
    [open |-> FALSE, rule |-> OpenedRule(0), out |-> <<>>, err |-> "none"]

\* A parser that adds the address of every block line, repeated or not.
walkLine_NoDedupe(st, l) ==
    IF st.err # "none" THEN st
    ELSE CASE l.t = "BEGIN" ->
                IF st.open THEN [st EXCEPT !.err = "NestedBegin"]
                ELSE [st EXCEPT !.open = TRUE, !.rule = OpenedRule(l.id)]
           [] l.t = "END" ->
                IF ~st.open THEN [st EXCEPT !.err = "OrphanEnd"]
                ELSE IF l.id # st.rule.ID THEN [st EXCEPT !.err = "MismatchedId"]
                ELSE IF \E i \in DOMAIN st.out : st.out[i].ID = l.id
                     THEN [st EXCEPT !.err = "DuplicateId"]
                ELSE [st EXCEPT !.open = FALSE, !.out = Append(st.out, st.rule)]
           [] l.t = "Domain" /\ st.open ->
                [st EXCEPT !.rule.Domain = l.dom]
           [] l.t = "Expires" /\ st.open ->
                [st EXCEPT !.rule.Expires = l.exp, !.rule.Permanent = FALSE]
           [] l.t = "block" /\ st.open ->
                [st EXCEPT !.rule.IPs = Append(st.rule.IPs, l.addr)]
           [] OTHER -> st

\* The parser on one line.
walkLine(st, l) ==
    IF st.err # "none" THEN st
    ELSE CASE l.t = "BEGIN" ->
                IF st.open THEN [st EXCEPT !.err = "NestedBegin"]
                ELSE [st EXCEPT !.open = TRUE, !.rule = OpenedRule(l.id)]
           [] l.t = "END" ->
                IF ~st.open THEN [st EXCEPT !.err = "OrphanEnd"]
                ELSE IF l.id # st.rule.ID THEN [st EXCEPT !.err = "MismatchedId"]
                ELSE IF \E i \in DOMAIN st.out : st.out[i].ID = l.id
                     THEN [st EXCEPT !.err = "DuplicateId"]
                ELSE [st EXCEPT !.open = FALSE, !.out = Append(st.out, st.rule)]
           [] l.t = "Domain" /\ st.open ->
                [st EXCEPT !.rule.Domain = l.dom]
           [] l.t = "Expires" /\ st.open ->
                [st EXCEPT !.rule.Expires = l.exp, !.rule.Permanent = FALSE]
           [] l.t = "block" /\ st.open ->
                IF l.addr \in SeqRange(st.rule.IPs) THEN st
                ELSE [st EXCEPT !.rule.IPs = Append(st.rule.IPs, l.addr)]
           [] OTHER -> st

RECURSIVE walkFrom(_, _)
walkFrom(st, lines) ==
    IF lines = <<>> THEN st
    ELSE walkFrom(walkLine(st, Head(lines)), Tail(lines))

\* A parser that returns the blocks completed before the fault together
\* with the error.
walkLines_Partial(lines) ==
    LET st == walkFrom(ParserStart, lines)
    IN  [rules |-> st.out, err |-> st.err]

\* A parser that returns the block still open at the end of the text with
\* the complete ones.
walkLines_KeepsOpenBlock(lines) ==
    LET st == walkFrom(ParserStart, lines)
    IN  IF st.err # "none" THEN [rules |-> <<>>, err |-> st.err]
        ELSE [rules |-> IF st.open THEN Append(st.out, st.rule) ELSE st.out,
              err |-> "none"]

\* The parser (walk) on a text: the rules of its complete blocks in file
\* order, a block still open at the end being dropped, or an error and no
\* rule.
walkLines(lines) ==
    LET st == walkFrom(ParserStart, lines)
    IN  IF st.err # "none" THEN [rules |-> <<>>, err |-> st.err]
        ELSE [rules |-> st.out, err |-> "none"]

\* The emitter: the canonical header.
Header == <<OtherLine, OtherLine>>

\* The emitter: a tcp and a udp line for each address, in the list's order.
BlockLines(ips) ==
    [i \in 1..(2 * Len(ips)) |->
        BlockLine(IF i % 2 = 1 THEN "tcp" ELSE "udp", ips[(i + 1) \div 2])]

\* An emitter that writes the Expires header of every rule.
emitRule_AlwaysExpires(r) ==
    <<BeginLine(r.ID), DomainLine(r.Domain), ExpiresLine(r.Expires)>>
    \o BlockLines(r.IPs) \o <<EndLine(r.ID)>>

\* The emitter: the managed block of one rule; the Expires header is
\* written for a rule that is not permanent.
emitRule(r) ==
    <<BeginLine(r.ID), DomainLine(r.Domain)>>
    \o (IF r.Permanent THEN <<>> ELSE <<ExpiresLine(r.Expires)>>)
    \o BlockLines(r.IPs) \o <<EndLine(r.ID)>>

RECURSIVE emitRules(_)
emitRules(rules) ==
    IF rules = <<>> THEN <<>>
    ELSE emitRule(Head(rules)) \o emitRules(Tail(rules))

\* The emitter: the header, then the rules in the order of the list.
emitLines(rules) == Header \o emitRules(rules)

\* The rule lists the engine hands to the emitter: up to two rules of
\* distinct ids, temporary or permanent (a permanent rule may carry an
\* Expires left by an update), with any addresses, resolved_at never zero.
CodecIPLists ==
    {<<>>, <<"ip1">>, <<"ip2">>, <<"ip1", "ip2">>, <<"ip2", "ip1">>}
EngineRules ==
    {r \in [ID : FileIDs, Domain : {<<"a">>, <<"B">>}, IPs : CodecIPLists,
            Expires : Times, Permanent : BOOLEAN, ResolvedAt : Stamps] :
        r.Permanent \/ r.Expires # 0}
RuleLists ==
    {<<>>} \cup {<<r>> : r \in EngineRules}
    \cup {<<r, q>> : r \in {x \in EngineRules : x.ID = 8},
                     q \in {x \in EngineRules : x.ID = 9}}

\* The texts given to the parser: up to MaxLines lines.
LineAlphabet ==
    {BeginLine(id) : id \in FileIDs} \cup {EndLine(id) : id \in FileIDs}
    \cup {DomainLine(<<"a">>), OtherLine}
    \cup {ExpiresLine(e) : e \in {1, 2}}
    \cup {BlockLine("tcp", "ip1"), BlockLine("udp", "ip1"),
          BlockLine("tcp", "ip2")}
Texts == UNION {[1..n -> LineAlphabet] : n \in 0..MaxLines}

\* A rule list about to be emitted and parsed back, or a text about to be
\* parsed.
CodecInit ==
    /\ EngineStarted
    /\ NoWrite
    /\ NoConnect
    /\ parsed = Nil
    /\ \/ cpc = "emit" /\ xs \in RuleLists /\ text = <<>>
       \/ cpc = "parse" /\ xs = <<>> /\ text \in Texts

\* The emitter is called on xs.
Emit ==
    /\ cpc = "emit"
    /\ text' = emitLines(xs)
    /\ cpc' = "reparse"
    /\ UNCHANGED <<xs, parsed>>
    /\ UNCHANGED allButCodec

\* The parser is called on the text.
Parse ==
    /\ cpc \in {"parse", "reparse"}
    /\ parsed' = walkLines(text)
    /\ cpc' = IF cpc = "parse" THEN "parsed" ELSE "roundtrip"
    /\ UNCHANGED <<xs, text>>
    /\ UNCHANGED allButCodec

CodecNext == Emit \/ Parse

CodecSpec == CodecInit /\ [][CodecNext]_vars

Delims(txt) == {i \in DOMAIN txt : txt[i].t \in {"BEGIN", "END"}}
PrevDelim(txt, i) ==
    IF \E j \in Delims(txt) : j < i
    THEN CHOOSE j \in Delims(txt) :
            j < i /\ \A k \in Delims(txt) : k < i => k <= j
    ELSE 0

\* Line i is an END with no block open.
OrphanEndAt(txt, i) ==
    /\ txt[i].t = "END"
    /\ PrevDelim(txt, i) # 0 => txt[PrevDelim(txt, i)].t = "END"
\* Line i is a BEGIN while a block is open.
NestedBeginAt(txt, i) ==
    /\ txt[i].t = "BEGIN"
    /\ PrevDelim(txt, i) # 0
    /\ txt[PrevDelim(txt, i)].t = "BEGIN"
\* Line i is an END whose id differs from the open BEGIN's.
MismatchedIdAt(txt, i) ==
    /\ txt[i].t = "END"
    /\ PrevDelim(txt, i) # 0
    /\ txt[PrevDelim(txt, i)].t = "BEGIN"
    /\ txt[PrevDelim(txt, i)].id # txt[i].id
\* Line i is the END of a complete block.
CompleteAt(txt, i) ==
    /\ txt[i].t = "END"
    /\ PrevDelim(txt, i) # 0
    /\ txt[PrevDelim(txt, i)].t = "BEGIN"
    /\ txt[PrevDelim(txt, i)].id = txt[i].id
\* Two complete blocks of the text have the same id.
DuplicateIdIn(txt) ==
    \E i, j \in DOMAIN txt :
        i < j /\ CompleteAt(txt, i) /\ CompleteAt(txt, j) /\ txt[i].id = txt[j].id

\* The text has one of the four faults of the grammar.
Faulty(txt) ==
    \/ \E i \in DOMAIN txt :
          OrphanEndAt(txt, i) \/ NestedBeginAt(txt, i) \/ MismatchedIdAt(txt, i)
    \/ DuplicateIdIn(txt)

\* The END lines of a text and the rank of one of them among them.
Ends(txt) == {i \in DOMAIN txt : txt[i].t = "END"}
EndRank(txt, i) == Cardinality({j \in Ends(txt) : j <= i})

\* C34: for a text with an END that closes nothing, a BEGIN inside an open
\* block, an END of another id than the open BEGIN's, or two complete blocks
\* of one id, the parser returns an error and no rule at all, whatever
\* complete blocks precede the fault.
C34_FaultsAreFatal ==
    (cpc = "parsed" /\ Faulty(text)) =>
        /\ parsed.err # "none"
        /\ parsed.rules = <<>>

\* C34 happens: a text whose second complete block repeats the id of its
\* first one was parsed, with an error and no rule.
C34_Witness ==
    /\ cpc = "parsed"
    /\ DuplicateIdIn(text)
    /\ \A i \in DOMAIN text :
          ~(OrphanEndAt(text, i) \/ NestedBeginAt(text, i) \/ MismatchedIdAt(text, i))
    /\ parsed.err = "DuplicateId"
    /\ parsed.rules = <<>>

\* The text ends inside a block: its last delimiter is a BEGIN.
Unterminated(txt) ==
    /\ Delims(txt) # {}
    /\ txt[PrevDelim(txt, Len(txt) + 1)].t = "BEGIN"

\* C35: for a text that ends while a block is open (and has no other fault)
\* the parser returns no error and exactly the complete blocks that precede
\* it, in file order; the open block is not in the result.
C35_UnterminatedBlockDropped ==
    (cpc = "parsed" /\ Unterminated(text) /\ ~Faulty(text)) =>
        /\ parsed.err = "none"
        /\ Len(parsed.rules) = Cardinality(Ends(text))
        /\ \A i \in Ends(text) :
              parsed.rules[EndRank(text, i)].ID = text[i].id

\* C35 happens: a text with a complete block followed by a block of another
\* id that is never closed was parsed, and one rule came back.
C35_Witness ==
    /\ cpc = "parsed"
    /\ Unterminated(text)
    /\ ~Faulty(text)
    /\ Cardinality(Ends(text)) = 1
    /\ \E i \in DOMAIN text : text[i].t = "BEGIN" /\ text[i].id = 9
    /\ Len(parsed.rules) = 1
    /\ parsed.rules[1].ID = 8

\* The lines of the complete block that ends at line i.
BodyOf(txt, i) == {j \in DOMAIN txt : PrevDelim(txt, i) < j /\ j < i}
ExpiresOf(txt, i) == {txt[j].exp : j \in {k \in BodyOf(txt, i) : txt[k].t = "Expires"}}
AddrsOf(txt, i) == {txt[j].addr : j \in {k \in BodyOf(txt, i) : txt[k].t = "block"}}

\* C36: the rule the parser returns for a complete block is permanent with
\* zero expires_at when the block has no Expires header, and not permanent
\* with the header's timestamp when it has one; its ips are the distinct
\* addresses of the block lines, each once whether written for tcp, udp or
\* both; other lines change nothing.
C36_BlockFields ==
    (cpc = "parsed" /\ ~Faulty(text)) =>
        \A i \in Ends(text) :
            LET r == parsed.rules[EndRank(text, i)]
            IN  /\ ExpiresOf(text, i) = {} => (r.Permanent /\ r.Expires = 0)
                /\ ExpiresOf(text, i) # {} =>
                      (~r.Permanent /\ r.Expires \in ExpiresOf(text, i))
                /\ SeqRange(r.IPs) = AddrsOf(text, i)
                /\ Len(r.IPs) = Cardinality(AddrsOf(text, i))

\* C36 happens: a block with an Expires header and the tcp and udp lines of
\* one address was parsed into a temporary rule with that one address.
C36_Witness ==
    /\ cpc = "parsed"
    /\ ~Faulty(text)
    /\ Len(text) = 5
    /\ text[2] = ExpiresLine(2)
    /\ text[3] = BlockLine("tcp", "ip1")
    /\ text[4] = BlockLine("udp", "ip1")
    /\ Len(parsed.rules) = 1
    /\ parsed.rules[1].IPs = <<"ip1">>
    /\ parsed.rules[1].Expires = 2
    /\ ~parsed.rules[1].Permanent

\* ---------------------------------------------------- heap index of entries
\* Every entry of the heap slice records its own position.
HeapIdxOK(s) ==
    \A i \in 1..Len(s.expH) : s.ent[s.expH[i]].heapIdx = i - 1

\* C37: after every mutating store operation heap[i].heapIdx = i for every
\* index of the heap, so that Remove and the upgrade from temporary to
\* permanent take the intended entry, and no entry of another rule, out of
\* the heap.
C37_HeapIdxIsPosition ==
    /\ ~store.panic
    /\ HeapIdxOK(store)
    /\ \A id \in DOMAIN store.byID :
          LET q == store.byID[id]
              res == Remove(store, id)
          IN  /\ ~res.s.panic
              /\ HeapIdxOK(res.s)
              /\ SeqRange(res.s.expH) = SeqRange(store.expH) \ {q}
              /\ Len(res.s.expH) = Cardinality(SeqRange(store.expH) \ {q})
    /\ \A r \in Rules :
          LET dom == ToLower(r.Domain)
          IN  (r.Permanent /\ dom \in DOMAIN store.byDom
                 /\ ~store.ent[store.byDom[dom]].Permanent) =>
              LET q == store.byDom[dom]
                  res == Upsert(store, r)
              IN  /\ ~res.s.panic
                  /\ HeapIdxOK(res.s)
                  /\ SeqRange(res.s.expH) = SeqRange(store.expH) \ {q}
                  /\ Len(res.s.expH) = Cardinality(SeqRange(store.expH) \ {q})

\* C37 happens: an upgrade took the root out of a heap of two entries; the
\* entry of the other rule is now the root and records index 0.
C37_Witness ==
    /\ last.op = "Upsert"
    /\ last.path = "upgrade"
    /\ Len(store.expH) = 1
    /\ store.ent[store.expH[1]].heapIdx = 0
    /\ \E q \in StoreEntries(store) :
          /\ store.ent[q].Permanent
          /\ store.ent[q].heapIdx = 0 - 1

\* ----------------------------------------------------------- Socket.Connect
\* Time is counted in retry intervals of DefaultConfig (250 ms) from the
\* creation of the Socket (startTime).  The 5 second startup timeout, the
\* retry interval, and the 2 second grace of shouldRetry.
StartupTimeout == 20
RetryInterval == 1
startupGrace == 8
\* How long after New the call to Connect can come.
MaxDelay == 2
\* The clock stops at this reading, which stands for any later time.
MaxSockTime == MaxDelay + StartupTimeout + 2

\* Connect has just computed its deadline; the daemon may be running or not.
SockInit ==
    /\ EngineStarted
    /\ NoWrite
    /\ NoCodec
    /\ spc = "dial"
    /\ sres = "pending"
    /\ snow \in 0..MaxDelay
    /\ deadline = snow + StartupTimeout
    /\ waitStart = 0
    /\ ctxDone = FALSE
    /\ procRunning \in BOOLEAN
    /\ lastDial = "none"
    /\ saw = NoRead

\* How an elapsed time compares with the grace of shouldRetry.
Against(elapsed, grace) ==
    IF elapsed < grace THEN "less"
    ELSE IF elapsed = grace THEN "equal" ELSE "more"

\* conn, err := s.tryConnect(ctx, path): the dial succeeds and Connect
\* returns the connection, or fails (it cannot succeed once ctx has ended).
tryConnect ==
    /\ spc = "dial"
    /\ \E ok \in BOOLEAN :
          /\ ok => ~ctxDone
          /\ lastDial' = IF ok THEN "ok" ELSE "failed"
          /\ spc' = IF ok THEN "done" ELSE "deadline"
          /\ sres' = IF ok THEN "conn" ELSE sres
    /\ UNCHANGED <<snow, deadline, waitStart, ctxDone, procRunning, saw>>
    /\ UNCHANGED allButSock

\* shouldRetry: time.Now().After(deadline) gives false, and Connect returns
\* ErrNotRunning.
shouldRetry_Deadline ==
    /\ spc = "deadline"
    /\ saw' = [NoRead EXCEPT !.late = (snow > deadline)]
    /\ IF snow > deadline
       THEN spc' = "done" /\ sres' = "ErrNotRunning"
       ELSE spc' = "grace" /\ sres' = sres
    /\ UNCHANGED <<snow, deadline, waitStart, ctxDone, procRunning, lastDial>>
    /\ UNCHANGED allButSock

\* A shouldRetry without the quick check for early startup.
shouldRetry_Grace_Skipped ==
    /\ spc = "grace"
    /\ saw' = [saw EXCEPT !.since = Against(snow, startupGrace)]
    /\ spc' = "running"
    /\ UNCHANGED <<sres, snow, deadline, waitStart, ctxDone, procRunning,
                   lastDial>>
    /\ UNCHANGED allButSock

\* shouldRetry: time.Since(s.startTime) < 2 s gives true, and Connect goes
\* to its select.
shouldRetry_Grace ==
    /\ spc = "grace"
    /\ saw' = [saw EXCEPT !.since = Against(snow, startupGrace)]
    /\ IF snow < startupGrace
       THEN spc' = "wait" /\ waitStart' = snow
       ELSE spc' = "running" /\ waitStart' = waitStart
    /\ UNCHANGED <<sres, snow, deadline, ctxDone, procRunning, lastDial>>
    /\ UNCHANGED allButSock

\* shouldRetry: the answer of s.procCheck.IsRunning decides.
shouldRetry_IsRunning ==
    /\ spc = "running"
    /\ saw' = [saw EXCEPT !.running = procRunning]
    /\ IF procRunning
       THEN spc' = "wait" /\ waitStart' = snow /\ sres' = sres
       ELSE spc' = "done" /\ sres' = "ErrNotRunning" /\ waitStart' = waitStart
    /\ UNCHANGED <<snow, deadline, ctxDone, procRunning, lastDial>>
    /\ UNCHANGED allButSock

\* select, case <-ctx.Done(): return nil, ctx.Err().
selectCtxDone ==
    /\ spc = "wait"
    /\ ctxDone
    /\ spc' = "done"
    /\ sres' = "ctxErr"
    /\ waitStart' = 0
    /\ UNCHANGED <<snow, deadline, ctxDone, procRunning, lastDial, saw>>
    /\ UNCHANGED allButSock

\* select, case <-time.After(s.config.RetryInterval): continue.
selectTimeAfter ==
    /\ spc = "wait"
    /\ snow >= waitStart + RetryInterval \/ snow = MaxSockTime
    /\ spc' = "dial"
    /\ waitStart' = 0
    /\ UNCHANGED <<sres, snow, deadline, ctxDone, procRunning, lastDial, saw>>
    /\ UNCHANGED allButSock

\* The steps of Connect.
ConnectStep ==
    \/ tryConnect
    \/ shouldRetry_Deadline
    \/ shouldRetry_Grace
    \/ shouldRetry_IsRunning
    \/ selectCtxDone
    \/ selectTimeAfter

\* Time passes.
SockTick ==
    /\ spc \notin {"idle", "done"}
    /\ snow < MaxSockTime
    /\ snow' = snow + 1
    /\ UNCHANGED <<spc, sres, deadline, waitStart, ctxDone, procRunning,
                   lastDial, saw>>
    /\ UNCHANGED allButSock

\* The caller's ctx is cancelled or times out.
CtxEnds ==
    /\ spc \notin {"idle", "done"}
    /\ ~ctxDone
    /\ ctxDone' = TRUE
    /\ UNCHANGED <<spc, sres, snow, deadline, waitStart, procRunning,
                   lastDial, saw>>
    /\ UNCHANGED allButSock

\* The daemon process starts or stops.
ProcChanges ==
    /\ spc \notin {"idle", "done"}
    /\ procRunning' = ~procRunning
    /\ UNCHANGED <<spc, sres, snow, deadline, waitStart, ctxDone, lastDial,
                   saw>>
    /\ UNCHANGED allButSock

SockNext ==
    \/ ConnectStep
    \/ SockTick
    \/ CtxEnds
    \/ ProcChanges

\* The goroutine in Connect keeps running and time keeps passing.
SockSpec ==
    SockInit /\ [][SockNext]_vars /\ WF_vars(ConnectStep) /\ WF_vars(SockTick)

\* What holds of every call whatever the reading of the grace: the call
\* ends, with one of three results; a dial that succeeds ends it at once
\* with the connection; the context's error comes out of the select, the
\* ctx having ended.
ConnectEnds ==
    /\ <>(spc = "done")
    /\ [](spc = "done" <=> sres \in {"conn", "ctxErr", "ErrNotRunning"})
    /\ [](lastDial = "ok" <=> sres = "conn")
    /\ [][(sres # "ctxErr" /\ sres' = "ctxErr") => (spc = "wait" /\ ctxDone)]_vars

Comparable(r) ==
    [ID |-> r.ID, Domain |-> r.Domain, IPs |-> SeqRange(r.IPs),
     Expires |-> r.Expires, Permanent |-> r.Permanent]

\* The rules Manager.CurrentRules reads from the anchor file on disk: none
\* for an absent file and for one the parser rejects.
AnchorRules ==
    IF anchor = NoFile THEN {}
    ELSE {Comparable(r) : r \in SeqRange(walk(anchor).rules)}

\* The rules of the store.
StoreRules == {Comparable(r) : r \in Snapshot(store)}

\* C39: whenever the worker is idle between commands and every PF sync
\* issued so far has succeeded, the rules in the anchor file (id, domain,
\* addresses as a set, expires_at, permanent) are the rules in the store,
\* from the end of Run onward, also after a load of a file in which two
\* blocks name the same domain.  (A run of LoadSpec issues at most one sync,
\* whose outcome is pfErr.)
C39_AnchorEqualsStore ==
    (wpc = "select" /\ ~pfErr) => AnchorRules = StoreRules


\* -------------------------------------------------------- Close and drain
\* The engine whose API tasks and ticker send only before Close is called:
\* every command in the channel was accepted before the cancellation.
DrainNext ==
    \/ /\ ~cancelled
       /\ accepted < MaxCmds
       /\ \/ \E ttl \in TTLs : BlockDomain(LowerDomains[1], ttl)
          \/ \E id \in 0..uuid : UnblockDomain(id)
          \/ TickerSend
    \/ TickerExit
    \/ Close
    \/ WorkerNext

DrainSpec == EngineInit /\ [][DrainNext]_vars

\* The block and unblock commands still buffered in the channel.
Undispatched ==
    {cmdChan[i].seq : i \in {j \in DOMAIN cmdChan :
                                cmdChan[j].type \in {"block", "unblock"}}}

\* C40: Close drains the command channel: every block or unblock command
\* whose send completed before Close was called has been dispatched by the
\* worker when the worker exits, so none is left in the channel.
C40_CloseDrainsChannel ==
    wpc = "exited" => Undispatched = {}

====
